---- MODULE Spec2Model ----
(***************************************************************************)
(* Zonal statistics of a tiled raster against the features of a vector    *)
(* datasource: a model of zonal_stats_from_raster (src/zonal-statistics.py)*)
(* as a state machine whose program counter walks the function's body.    *)
(*                                                                         *)
(* World coordinates are integers, the affine is the six-term tuple       *)
(* <<a, b, c, d, e, f>> of affine.Affine, a geometry is a list of          *)
(* axis-aligned rectangles <<minx, miny, maxx, maxy>> (a rectilinear       *)
(* Polygon / MultiPolygon), and a scalar result is a triple                *)
(* <<kind, numerator, denominator>> so that exact means and standard       *)
(* deviations can be compared.                                             *)
(***************************************************************************)
EXTENDS Integers, Sequences, FiniteSets, TLC

\* ------------------------------------------------------------------ bounds

\* Largest number of features in the vector datasource.
MaxFeatures == 2

\* ------------------------------------------------------------- arithmetic

Abs(n) == IF n < 0 THEN -n ELSE n

RECURSIVE GCD(_, _)
GCD(m, n) == IF n = 0 THEN Abs(m) ELSE GCD(n, m % n)

SetMin(S) == CHOOSE x \in S : \A y \in S : x <= y
SetMax(S) == CHOOSE x \in S : \A y \in S : x >= y

\* Largest k in lo..hi with k * k <= n (bisection).
RECURSIVE FloorSqrt(_, _, _)
FloorSqrt(n, lo, hi) ==
    IF lo >= hi THEN lo
    ELSE LET mid == (lo + hi + 1) \div 2
         IN  IF mid * mid <= n THEN FloorSqrt(n, mid, hi)
                               ELSE FloorSqrt(n, lo, mid - 1)

IsSquare(n) == n >= 0 /\ FloorSqrt(n, 0, n) * FloorSqrt(n, 0, n) = n

\* ---------------------------------------------------------------- scalars
\* What a metric function returns.  Num(n) is the integer n, Rat(n, d) the
\* exact quotient n / d in lowest terms (a numpy float), Masked is the
\* numpy.ma.masked constant a reduction over zero unmasked values returns,
\* PyNone is Python's None.

Num(n) == <<"num", n, 1>>

Rat(n, d) ==
    LET g == GCD(n, d)
    IN  IF d < 0 THEN <<"num", (0 - n) \div g, (0 - d) \div g>>
                 ELSE <<"num", n \div g, d \div g>>

\* The square root of the rational n / d (d > 0): exact when both terms of
\* the reduced quotient are squares, otherwise kept as the radicand.
SqrtRat(n, d) ==
    LET q == Rat(n, d)
    IN  IF IsSquare(q[2]) /\ IsSquare(q[3])
        THEN <<"num", FloorSqrt(q[2], 0, q[2]), FloorSqrt(q[3], 0, q[3])>>
        ELSE <<"sqrt", q[2], q[3]>>

Masked == <<"masked", 0, 1>>

PyNone == <<"None", 0, 1>>

\* ------------------------------------------------- insertion-ordered dicts
\* A Python dict whose key order matters is a sequence of <<key, value>>
\* pairs in insertion order; assigning an existing key keeps its position.

DictKeys(d) == [i \in 1..Len(d) |-> d[i][1]]

DictHas(d, k) == \E i \in 1..Len(d) : d[i][1] = k

DictGet(d, k) == d[CHOOSE i \in 1..Len(d) : d[i][1] = k][2]

\* A new key put first.
DictSet_NewKeyFirst(d, k, v) ==
    IF DictHas(d, k)
    THEN [i \in 1..Len(d) |-> IF d[i][1] = k THEN <<k, v>> ELSE d[i]]
    ELSE <<(<<k, v>>)>> \o d

DictSet(d, k, v) ==
    IF DictHas(d, k)
    THEN [i \in 1..Len(d) |-> IF d[i][1] = k THEN <<k, v>> ELSE d[i]]
    ELSE Append(d, <<k, v>>)

\* A dict with string keys whose order does not matter is a function; this
\* is d[k] = v.
Put(d, k, v) == [x \in (DOMAIN d) \cup {k} |-> IF x = k THEN v ELSE d[x]]

\* Python's Optional: None is the empty sequence, a value x is <<x>>.
None == << >>

Some(x) == <<x>>

RECURSIVE InsertSorted(_, _)
InsertSorted(s, x) ==
    IF s = << >> THEN <<x>>
    ELSE IF x < Head(s) THEN <<x>> \o s
    ELSE <<Head(s)>> \o InsertSorted(Tail(s), x)

\* sorted(list)
RECURSIVE Sorted(_)
Sorted(s) == IF s = << >> THEN << >> ELSE InsertSorted(Sorted(Tail(s)), Head(s))

\* range(lo, hi) as a list
Range(lo, hi) == [i \in 1..(IF hi > lo THEN hi - lo ELSE 0) |-> lo + i - 1]

\* ----------------------------------------------------------------- affine

\* affine.Affine.__mul__ with a point: (col, row) -> (x, y)
AffineMul(aff, p) ==
    <<aff[1] * p[1] + aff[2] * p[2] + aff[3],
      aff[4] * p[1] + aff[5] * p[2] + aff[6]>>

\* --------------------------------------------------------------- geometry
\* A rectangle is <<minx, miny, maxx, maxy>>, the order of shapely's bounds.

\* The rectangle spanned by two opposite corners.
RectOf(p, q) ==
    <<IF p[1] <= q[1] THEN p[1] ELSE q[1], IF p[2] <= q[2] THEN p[2] ELSE q[2],
      IF p[1] <= q[1] THEN q[1] ELSE p[1], IF p[2] <= q[2] THEN q[2] ELSE p[2]>>

\* Closed boxes share a point (touching counts).
BoxesIntersect(p, q) ==
    /\ p[1] <= q[3] /\ q[1] <= p[3]
    /\ p[2] <= q[4] /\ q[2] <= p[4]

BoxWithin(p, q) ==
    /\ q[1] <= p[1] /\ p[3] <= q[3]
    /\ q[2] <= p[2] /\ p[4] <= q[4]

Polygon(parts) == [type |-> "Polygon", parts |-> parts]

\* shapely: geometry.bounds
GeomBounds(g) ==
    <<SetMin({g.parts[i][1] : i \in 1..Len(g.parts)}),
      SetMin({g.parts[i][2] : i \in 1..Len(g.parts)}),
      SetMax({g.parts[i][3] : i \in 1..Len(g.parts)}),
      SetMax({g.parts[i][4] : i \in 1..Len(g.parts)})>>

\* shapely: g.intersects(h), true when the two geometries share a point.
GeomIntersects(g, h) ==
    \E i \in 1..Len(g.parts), j \in 1..Len(h.parts) :
        BoxesIntersect(g.parts[i], h.parts[j])

\* Part p of a geometry lies on the boundary of rectangle q: it has no
\* width and sits on a vertical edge, or no height and sits on a
\* horizontal edge.
OnBoundary(p, q) ==
    \/ p[1] = p[3] /\ p[1] \in {q[1], q[3]}
    \/ p[2] = p[4] /\ p[2] \in {q[2], q[4]}

\* The bounding-box test: the bounds of g lie within the bounds of h.
GeomContains_BoundsOnly(h, g) == BoxWithin(GeomBounds(g), GeomBounds(h))

\* shapely: h.contains(g) for a one-part h: no point of g is outside h and
\* the interiors of the two share a point.
GeomContains(h, g) ==
    /\ \A i \in 1..Len(g.parts) : BoxWithin(g.parts[i], h.parts[1])
    /\ \E i \in 1..Len(g.parts) : ~OnBoundary(g.parts[i], h.parts[1])

\* Coordinate reference systems differ by the position of their origin: a
\* point with coordinates p in crs lies at p + CrsOrigin(crs).
CrsOrigin(crs) == IF crs = "EPSG:B" THEN <<100, 50>> ELSE <<0, 0>>

\* The crs strings the projection library can resolve.
KnownCrs(crs) == crs \in {"EPSG:A", "EPSG:B"}

\* fiona.transform.transform_geom(src_crs, dst_crs, geometry)
TransformGeom(src_crs, dst_crs, g) ==
    LET dx == CrsOrigin(src_crs)[1] - CrsOrigin(dst_crs)[1]
        dy == CrsOrigin(src_crs)[2] - CrsOrigin(dst_crs)[2]
    IN  [type |-> g.type,
         parts |-> [i \in 1..Len(g.parts) |->
                      <<g.parts[i][1] + dx, g.parts[i][2] + dy,
                        g.parts[i][3] + dx, g.parts[i][4] + dy>>]]

\* ----------------------------------------------------------------- arrays
\* A 2D array is a function [row -> [col -> value]] on 0-based indexes.

Rows(m) == Cardinality(DOMAIN m)

Cols(m) == IF Rows(m) = 0 THEN 0 ELSE Cardinality(DOMAIN m[0])

Shape(m) == <<Rows(m), Cols(m)>>

Cells(m) == {<<r, c>> : r \in 0..(Rows(m) - 1), c \in 0..(Cols(m) - 1)}

\* ----------------------------------------------------------------- raster
\* A raster dataset is a record: width, height, count, crs, affine,
\* nodatavals (per band the set holding the nodata value, empty for None),
\* data (per band a 2D array) and block_shape <<rows, cols>>.

CeilDiv(n, d) == (n + d - 1) \div d

\* rasterio: raster.bounds = (left, bottom, right, top)
RasterBounds(raster) ==
    <<raster.affine[3],
      raster.affine[6] + raster.affine[5] * raster.height,
      raster.affine[3] + raster.affine[1] * raster.width,
      raster.affine[6]>>

\* rasterio: raster.block_windows(bidx) yields ((j, i), ((row_start,
\* row_stop), (col_start, col_stop))) row-major over the block grid, the
\* last blocks clipped to the raster's extent.
BlockWindows(raster, bidx) ==
    LET bh == raster.block_shape[1]
        bw == raster.block_shape[2]
        nj == CeilDiv(raster.height, bh)
        ni == CeilDiv(raster.width, bw)
        Clip(v, hi) == IF v > hi THEN hi ELSE v
    IN  [k \in 1..(nj * ni) |->
            LET j == (k - 1) \div ni
                i == (k - 1) % ni
            IN  <<<<j, i>>,
                  <<<<j * bh, Clip((j + 1) * bh, raster.height)>>,
                    <<i * bw, Clip((i + 1) * bw, raster.width)>>>>>>]

\* rasterio: raster.read(indexes, window=window).  ok is false when a band
\* index or the window is out of range (the read raises); masked tells
\* whether a masked array comes back, which is the case when any band has
\* a nodata value; a band's mask is true where its value is its nodata.
RasterRead(raster, indexes, window) ==
    LET r0 == window[1][1]
        r1 == window[1][2]
        c0 == window[2][1]
        c1 == window[2][2]
        ok == /\ \A k \in 1..Len(indexes) : indexes[k] \in 1..raster.count
              /\ 0 <= r0 /\ r0 <= r1 /\ r1 <= raster.height
              /\ 0 <= c0 /\ c0 <= c1 /\ c1 <= raster.width
    IN  [ok |-> ok,
         masked |-> \E b \in 1..raster.count : raster.nodatavals[b] # {},
         bands |->
            IF ~ok THEN << >>
            ELSE [k \in 1..Len(indexes) |->
                    [data |-> [r \in 0..(r1 - r0 - 1) |-> [c \in 0..(c1 - c0 - 1) |->
                                 raster.data[indexes[k]][r0 + r][c0 + c]]],
                     mask |-> [r \in 0..(r1 - r0 - 1) |-> [c \in 0..(c1 - c0 - 1) |->
                                 raster.data[indexes[k]][r0 + r][c0 + c]
                                     \in raster.nodatavals[indexes[k]]]]]]]

\* rasterio.features.rasterize([geometry], out_shape, transform, all_touched)
\* as a boolean array: a pixel is burned when its centre lies inside the
\* geometry or, with all_touched, when the pixel touches the geometry; a
\* point burns the pixel it falls in (of a transform without rotation); a
\* line burns, with all_touched, the pixels it touches and, without, the
\* pixels it runs through (for a line that follows no pixel edge).
\* Coordinates are doubled so that pixel centres stay integers.
PixelBurned(g, transform, touched, row, col) ==
    IF g.type = "LineString" /\ ~touched
    THEN LET px == RectOf(AffineMul(transform, <<col, row>>),
                          AffineMul(transform, <<col + 1, row + 1>>))
         IN  \E i \in 1..Len(g.parts) :
                /\ g.parts[i][1] < px[3] /\ px[1] < g.parts[i][3]
                /\ g.parts[i][2] < px[4] /\ px[2] < g.parts[i][4]
    ELSE IF g.type = "Point"
    THEN LET p == AffineMul(transform, <<col, row>>)
             q == AffineMul(transform, <<col + 1, row + 1>>)
             x == g.parts[1][1]
             y == g.parts[1][2]
         IN  /\ IF p[1] <= q[1] THEN p[1] <= x /\ x < q[1] ELSE q[1] < x /\ x <= p[1]
             /\ IF p[2] <= q[2] THEN p[2] <= y /\ y < q[2] ELSE q[2] < y /\ y <= p[2]
    ELSE IF touched
    THEN \E i \in 1..Len(g.parts) :
            BoxesIntersect(RectOf(AffineMul(transform, <<col, row>>),
                                  AffineMul(transform, <<col + 1, row + 1>>)),
                           g.parts[i])
    ELSE LET x2 == transform[1] * (2 * col + 1) + transform[2] * (2 * row + 1)
                    + 2 * transform[3]
             y2 == transform[4] * (2 * col + 1) + transform[5] * (2 * row + 1)
                    + 2 * transform[6]
         IN  \E i \in 1..Len(g.parts) :
                /\ 2 * g.parts[i][1] < x2 /\ x2 < 2 * g.parts[i][3]
                /\ 2 * g.parts[i][2] < y2 /\ y2 < 2 * g.parts[i][4]

Rasterize(g, out_shape, transform, touched) ==
    [row \in 0..(out_shape[1] - 1) |-> [col \in 0..(out_shape[2] - 1) |->
        PixelBurned(g, transform, touched, row, col)]]

\* An index that returns the boxes overlapping bounds, not those that
\* only touch it.
IndexIntersection_Overlapping(index, bounds) ==
    LET hit == {i \in 1..Len(index) :
                   /\ index[i][1] < bounds[3] /\ bounds[1] < index[i][3]
                   /\ index[i][2] < bounds[4] /\ bounds[2] < index[i][4]}
        RECURSIVE Asc(_)
        Asc(S) == IF S = {} THEN << >>
                  ELSE <<SetMin(S) - 1>> \o Asc(S \ {SetMin(S)})
    IN  Asc(hit)

\* rtree: index.intersection(bounds), the ids (0-based positions) of the
\* inserted boxes that intersect bounds, here in ascending order.
IndexIntersection(index, bounds) ==
    LET hit == {i \in 1..Len(index) : BoxesIntersect(index[i], bounds)}
        RECURSIVE Asc(_)
        Asc(S) == IF S = {} THEN << >>
                  ELSE <<SetMin(S) - 1>> \o Asc(S \ {SetMin(S)})
    IN  Asc(hit)

\* ---------------------------------------------------------- masked arrays
\* A masked array is [data |-> 2D array, mask |-> 2D boolean array]; a
\* reduction reads the unmasked cells only.

Unmasked(x) == {p \in Cells(x.data) : ~x.mask[p[1]][p[2]]}

RECURSIVE SumCells(_, _)
SumCells(S, data) ==
    IF S = {} THEN 0
    ELSE LET p == CHOOSE q \in S : TRUE
         IN  data[p[1]][p[2]] + SumCells(S \ {p}, data)

RECURSIVE SumSquares(_, _)
SumSquares(S, data) ==
    IF S = {} THEN 0
    ELSE LET p == CHOOSE q \in S : TRUE
         IN  data[p[1]][p[2]] * data[p[1]][p[2]] + SumSquares(S \ {p}, data)

\* numpy.ma: x.count()
MaCount(x) == Num(Cardinality(Unmasked(x)))

\* numpy.ma: x.min()
MaMin(x) ==
    IF Unmasked(x) = {} THEN Masked
    ELSE Num(SetMin({x.data[p[1]][p[2]] : p \in Unmasked(x)}))

\* numpy.ma: x.max()
MaMax(x) ==
    IF Unmasked(x) = {} THEN Masked
    ELSE Num(SetMax({x.data[p[1]][p[2]] : p \in Unmasked(x)}))

\* The sum of a plain array: 0 over no values.
MaSum_ZeroWhenEmpty(x) == Num(SumCells(Unmasked(x), x.data))

\* numpy.ma: x.sum()
MaSum(x) ==
    IF Unmasked(x) = {} THEN Masked ELSE Num(SumCells(Unmasked(x), x.data))

\* numpy.ma: x.mean()
MaMean(x) ==
    IF Unmasked(x) = {} THEN Masked
    ELSE Rat(SumCells(Unmasked(x), x.data), Cardinality(Unmasked(x)))

\* numpy.ma: x.std(), the square root of mean(x^2) - mean(x)^2
MaStd(x) ==
    IF Unmasked(x) = {} THEN Masked
    ELSE LET n == Cardinality(Unmasked(x))
             s == SumCells(Unmasked(x), x.data)
         IN  SqrtRat(n * SumSquares(Unmasked(x), x.data) - s * s, n * n)

\* ---------------------------------------------------------------- metrics
\* A metrics mapping is a function from metric names to function values.
\* A function value is named by what it computes; "None" is Python's None
\* and "42" stands for a value that is neither None nor callable.

DefaultMetrics ==
    [min |-> "lambda x: x.min()", max |-> "lambda x: x.max()",
     mean |-> "lambda x: x.mean()", std |-> "lambda x: x.std()",
     sum |-> "lambda x: x.sum()"]

\* hasattr(func, '__call__')
Callable(func) ==
    func \in {"lambda x: x.min()", "lambda x: x.max()", "lambda x: x.mean()",
              "lambda x: x.std()", "lambda x: x.sum()", "lambda m: m.count()",
              "lambda x: 100 // int(x.min())"}

\* What a call that raises exc gives in place of a value.
Raised(exc) == <<exc, 0, 1>>

Raises(value) == value[1] \in {"ZeroDivisionError", "MaskError"}

\* Python's a // b on integers, b # 0
FloorDiv(a, b) == IF b > 0 THEN a \div b ELSE (0 - a) \div (0 - b)

\* func(masked_subset) for a callable func
Call(func, x) ==
    CASE func = "lambda x: x.min()" -> MaMin(x)
      [] func = "lambda x: x.max()" -> MaMax(x)
      [] func = "lambda x: x.mean()" -> MaMean(x)
      [] func = "lambda x: x.std()" -> MaStd(x)
      [] func = "lambda x: x.sum()" -> MaSum(x)
      [] func = "lambda m: m.count()" -> MaCount(x)
      [] func = "lambda x: 100 // int(x.min())" ->
            IF MaMin(x) = Masked THEN Raised("MaskError")
            ELSE IF MaMin(x)[2] = 0 THEN Raised("ZeroDivisionError")
            ELSE Num(FloorDiv(100, MaMin(x)[2]))

\* The merge the other way round: a default wins over a custom entry.
MergeMetrics_DefaultsWin(mapping) ==
    IF mapping = None THEN DefaultMetrics
    ELSE [name \in (DOMAIN DefaultMetrics) \cup (DOMAIN mapping[1]) |->
            IF name \in DOMAIN DefaultMetrics THEN DefaultMetrics[name]
            ELSE mapping[1][name]]

\* metrics = {defaults}; if custom is not None: metrics.update(**custom)
MergeMetrics(mapping) ==
    IF mapping = None THEN DefaultMetrics
    ELSE [name \in (DOMAIN DefaultMetrics) \cup (DOMAIN mapping[1]) |->
            IF name \in DOMAIN mapping[1] THEN mapping[1][name]
            ELSE DefaultMetrics[name]]

\* No validation.
NotCallable_Never(func) == FALSE

\* The test of the validation loop: func is not None and is not callable.
NotCallable(func) == func # "None" /\ ~Callable(func)

\* The names the validation loop raises ValueError for.
InvalidMetrics(metrics) == {name \in DOMAIN metrics : NotCallable(metrics[name])}

\* ------------------------------------------------------------------ bands
\* The bands argument is [kind |-> "None" | "int" | "list", val |-> list].

\* The list as the caller gave it.
NormalizeBands_KeepsOrder(arg, dataset) ==
    IF arg.kind = "None" THEN Range(1, dataset.count + 1) ELSE arg.val

\* bands: all of the raster's, [bands] or sorted(bands)
NormalizeBands(arg, dataset) ==
    IF arg.kind = "None" THEN Range(1, dataset.count + 1)
    ELSE IF arg.kind = "int" THEN <<arg.val[1]>>
    ELSE Sorted(arg.val)

\* ----------------------------------------------------------- window index

\* raster_bounds = shapely.geometry.Polygon([four corners of raster.bounds])
RasterBoundsPolygon(bounds) ==
    Polygon(<<RectOf(<<bounds[1], bounds[2]>>, <<bounds[3], bounds[4]>>)>>)

\* The box inserted in the index for a block: (col_min, row_max, col_max,
\* row_min) after both corners went through the affine.
BlockBox(block, aff) ==
    LET _row == block[2][1]
        _col == block[2][2]
        ul == AffineMul(aff, <<_col[1], _row[1]>>)
        lr == AffineMul(aff, <<_col[2], _row[2]>>)
    IN  <<ul[1], lr[2], lr[1], ul[2]>>

\* rtree refuses a box whose minimum exceeds its maximum.
BoxInsertable(box) == box[1] <= box[3] /\ box[2] <= box[4]

\* intersecting_windows: the window of every block the index returns.
IntersectingWindows(window_ids, window_index, bounds) ==
    LET ids == IndexIntersection(window_index, bounds)
    IN  [k \in 1..Len(ids) |-> window_ids[ids[k] + 1][2]]

\* The window grown by a margin of one pixel on every side.
SubsetWindow_Padded(windows) ==
    LET n == Len(windows)
        first == {windows[k][1][1] : k \in 1..n} \cup {windows[k][1][2] : k \in 1..n}
        second == {windows[k][2][1] : k \in 1..n} \cup {windows[k][2][2] : k \in 1..n}
    IN  <<<<SetMin(first) - 1, SetMax(first) + 1>>,
          <<SetMin(second) - 1, SetMax(second) + 1>>>>

\* subset_window = ((min_col, max_col), (min_row, max_row)) where min_col
\* and max_col reduce column 0 of the windows array (the row ranges) and
\* min_row and max_row reduce column 1 (the column ranges).
SubsetWindow(intersecting_windows) ==
    LET n == Len(intersecting_windows)
        first == {intersecting_windows[k][1][1] : k \in 1..n}
                    \cup {intersecting_windows[k][1][2] : k \in 1..n}
        second == {intersecting_windows[k][2][1] : k \in 1..n}
                    \cup {intersecting_windows[k][2][2] : k \in 1..n}
    IN  <<<<SetMin(first), SetMax(first)>>, <<SetMin(second), SetMax(second)>>>>

\* The upper left corner taken at (row offset, column offset).
SubsetAffine_Swapped(aff, window) ==
    LET ul == AffineMul(aff, <<window[1][1], window[2][1]>>)
    IN  <<aff[1], aff[2], ul[1], aff[4], aff[5], ul[2]>>

\* subset_affine: the raster's a, b, d, e with the upper left corner
\* raster.affine * (min_row, min_col) of the subset.
SubsetAffine(aff, window) ==
    LET min_col == window[1][1]
        min_row == window[2][1]
        ul == AffineMul(aff, <<min_row, min_col>>)
    IN  <<aff[1], aff[2], ul[1], aff[4], aff[5], ul[2]>>

\* The raster subset as a masked array: a plain ndarray is wrapped with no
\* cell masked.
AsMaskedArray(read) ==
    IF read.masked THEN read.bands
    ELSE [k \in 1..Len(read.bands) |->
            [data |-> read.bands[k].data,
             mask |-> [r \in DOMAIN read.bands[k].data |->
                        [c \in DOMAIN read.bands[k].data[r] |-> FALSE]]]]

\* Every band taken from the first array of the subset.
BandMap_FirstArray(bands, bidx) == 0

\* band_map = dict(zip(bands, range(n))): the last position of bidx, 0-based
BandMap(bands, bidx) == SetMax({k \in 1..Len(bands) : bands[k] = bidx}) - 1

\* The band's own mask alone.
MaskedSubset_NodataOnly(band, burned) == [data |-> band.data, mask |-> band.mask]

\* masked_subset: the band's data, masked where the band is masked or the
\* geometry was not burned.
MaskedSubset(band, burned) ==
    [data |-> band.data,
     mask |-> [r \in DOMAIN band.data |-> [c \in DOMAIN band.data[r] |->
                 band.mask[r][c] \/ ~burned[r][c]]]]

\* The names the metrics loop stores a value for.
StoredMetrics(metrics) == {name \in DOMAIN metrics : metrics[name] # "None"}

\* feature_metrics['bands'][bidx] after the metrics loop.
BandRecord(metrics, masked_subset) ==
    [name \in StoredMetrics(metrics) |-> Call(metrics[name], masked_subset)]

\* ------------------------------------------------------------------ state

VARIABLES
    vector,          \* the vector datasource: [crs, features], read only
    raster,          \* the raster datasource, read only
    bands_arg,       \* the caller's bands argument
    contained,       \* the caller's contained argument
    all_touched,     \* the caller's all_touched argument: "None", "True", "False"
    custom,          \* the caller's custom argument: None or Some(mapping)
    window_band,     \* the caller's window_band argument
    metrics,         \* local: the merged metrics mapping
    bands,           \* local: the normalised list of bands
    stats,           \* local: the result, a dict feature id -> record
    raster_bounds,   \* local: the raster's bounding box polygon
    window_index,    \* local: the boxes inserted in the rtree index, by id
    window_ids,      \* local: the block of every id
    fidx,            \* the number of features the loop has taken
    zone_geometry,   \* local: the reprojected geometry
    feature_metrics, \* local: the record being built for the feature
    subset_window,   \* local
    raster_subset,   \* local: per requested band a masked array
    subset_affine,   \* local
    rasterized,      \* local: the boolean array of burned pixels
    bpos,            \* position of the band loop in bands (1-based)
    pc,              \* where the function is
    err,             \* the exception that ended the function, "" if none
    calls,           \* the calls made on the two datasources and libraries
    run,             \* which call of the function this is (1 or 2)
    first_stats      \* what the first call returned

\* The state of the two scripts modelled further down: summation-raster.py
\* and delimited2datasource.py (pc, err and all_touched serve them too).
VARIABLES
    src,             \* summation: the features of the input layer
    dst,             \* summation: the output raster
    nodata,          \* summation: the --nodata option
    property_name,   \* summation: the --property option, None for density
    block,           \* summation: the array of the block at hand
    block_pos,       \* summation: how many blocks the block loop has taken
    pending,         \* summation: the features of src.filter still to come
    reader,          \* delimited: the rows of the input file
    skip_failures,   \* delimited: the --skip-failures flag
    skip_lines,      \* delimited: the --skip-lines option
    subsample,       \* delimited: the --subsample option
    row_num,         \* delimited: how many rows the generator has taken
    first_feature,   \* delimited: the cached first feature
    yielded_first,   \* delimited: first_plus_iterator's flag
    idx,             \* delimited: enumerate's counter, the features taken
    feature,         \* delimited: the feature of the loop
    output           \* delimited: the ids of the features written

summation == <<src, dst, nodata, property_name, block, block_pos, pending>>

delimited == <<reader, skip_failures, skip_lines, subsample, row_num,
               first_feature, yielded_first, idx, feature, output>>

\* A script that is not running.
SummationIdle ==
    /\ src = << >> /\ dst = << >> /\ nodata = 0 /\ property_name = << >>
    /\ block = << >> /\ block_pos = 0 /\ pending = << >>

DelimitedIdle ==
    /\ reader = << >> /\ skip_failures = FALSE /\ skip_lines = 0 /\ subsample = 0
    /\ row_num = 0 /\ first_feature = << >> /\ yielded_first = FALSE /\ idx = 0
    /\ feature = << >> /\ output = << >>

inputs == <<vector, raster, bands_arg, contained, all_touched, custom, window_band>>

locals == <<metrics, bands, stats, raster_bounds, window_index, window_ids, fidx,
            zone_geometry, feature_metrics, subset_window, raster_subset,
            subset_affine, rasterized, bpos>>

vars == <<inputs, locals, pc, err, calls, run, first_stats, summation, delimited>>

\* ------------------------------------------------------------- input sets

\* A 4 x 4 raster of 1 x 1 pixels with its top-left corner at (0, 0) and
\* nodata -1.  Band 1 is 10 everywhere except nodata at (0, 0), band 2
\* numbers the pixels, band 3 is nodata on its first row.
RasterA(block_shape) ==
    [width |-> 4, height |-> 4, count |-> 3, crs |-> "EPSG:A",
     affine |-> <<1, 0, 0, 0, -1, 0>>,
     nodatavals |-> <<{-1}, {-1}, {-1}>>,
     data |-> <<[r \in 0..3 |-> [c \in 0..3 |-> IF r = 0 /\ c = 0 THEN -1 ELSE 10]],
                [r \in 0..3 |-> [c \in 0..3 |-> 4 * r + c + 1]],
                [r \in 0..3 |-> [c \in 0..3 |-> IF r = 0 THEN -1 ELSE r * c]]>>,
     block_shape |-> block_shape]

\* A raster of 3 rows and 4 columns of 2 x 2 pixels with its top-left
\* corner at (10, 20) and no nodata value.  Band 1 is 5 everywhere.
RasterB(block_shape) ==
    [width |-> 4, height |-> 3, count |-> 3, crs |-> "EPSG:A",
     affine |-> <<2, 0, 10, 0, -2, 20>>,
     nodatavals |-> <<{}, {}, {}>>,
     data |-> <<[r \in 0..2 |-> [c \in 0..3 |-> 5]],
                [r \in 0..2 |-> [c \in 0..3 |-> 4 * r + c + 1]],
                [r \in 0..2 |-> [c \in 0..3 |-> 2 * c - r]]>>,
     block_shape |-> block_shape]

Rasters ==
    {RasterA(<<2, 2>>), RasterA(<<1, 4>>), RasterB(<<2, 3>>), RasterB(<<1, 4>>)}

\* A one-band raster of 2 rows and 4 columns whose rows are sheared to the
\* left (x = col - row, y = -row), in blocks of one row: the two corners
\* the index loop takes of a block span less than the block.
RasterS ==
    [width |-> 4, height |-> 2, count |-> 1, crs |-> "EPSG:A",
     affine |-> <<1, -1, 0, 0, -1, 0>>,
     nodatavals |-> <<{}>>,
     data |-> <<[r \in 0..1 |-> [c \in 0..3 |-> 7]]>>,
     block_shape |-> <<1, 4>>]

\* A one-band south-up raster of 2 rows and 2 columns: its rows run up,
\* the vertical term of its affine is positive.
RasterU ==
    [width |-> 2, height |-> 2, count |-> 1, crs |-> "EPSG:A",
     affine |-> <<1, 0, 0, 0, 1, 0>>,
     nodatavals |-> <<{}>>,
     data |-> <<[r \in 0..1 |-> [c \in 0..1 |-> 3]]>>,
     block_shape |-> <<1, 2>>]

\* A polygon that touches the right edge of the bounds of RasterS and
\* meets the box of neither of its blocks.
MissedPolygon == Polygon(<<(<<4, -2, 5, -1>>)>>)

\* A polygon inside the bounds of RasterS that meets the box the index
\* holds for its first block and, of its second block, only the part the
\* box leaves out.
GrazingPolygon == Polygon(<<(<<3, -2, 4, -1>>)>>)

\* The polygon that exactly covers the pixels of rows r0..r1-1 and columns
\* c0..c1-1 of raster R, in the raster's coordinates.
PixelPolygon(R, r0, r1, c0, c1) ==
    Polygon(<<RectOf(AffineMul(R.affine, <<c0, r0>>), AffineMul(R.affine, <<c1, r1>>))>>)

CellPolygons(R) ==
    {PixelPolygon(R, r, r + 1, c, c + 1) : r \in 0..(R.height - 1), c \in 0..(R.width - 1)}

\* Cells (1,1)-(2,2); the 3 x 3 region at the top left; two polygons that
\* straddle a corner of the raster; a polygon outside it; a polygon that
\* only touches its top edge.
BlockPolygon(R) == PixelPolygon(R, 1, 3, 1, 3)

RegionPolygon(R) == PixelPolygon(R, 0, 3, 0, 3)

StraddlePolygons(R) ==
    {PixelPolygon(R, -1, 1, -1, 1),
     PixelPolygon(R, R.height - 1, R.height + 1, R.width - 1, R.width + 2)}

OutsidePolygon(R) == PixelPolygon(R, R.height + 1, R.height + 2, R.width + 1, R.width + 3)

TouchingPolygon(R) == PixelPolygon(R, -1, 0, 0, R.width)

\* The features of a vector datasource in crs whose geometries, once
\* reprojected to the raster's crs, are the polygons of geoms.
Features(geoms, crs, raster_crs) ==
    [i \in 1..Len(geoms) |->
        [id |-> <<"0", "1", "2", "3">>[i],
         geometry |-> TransformGeom(raster_crs, crs, geoms[i])]]

SeqsUpTo(S, n) == UNION {[1..k -> S] : k \in 0..n}

BandsArgs ==
    {[kind |-> "None", val |-> << >>], [kind |-> "int", val |-> <<2>>],
     [kind |-> "list", val |-> <<1>>], [kind |-> "list", val |-> <<2, 1>>],
     [kind |-> "list", val |-> <<3, 1>>], [kind |-> "list", val |-> <<3, 1, 2>>]}

Customs ==
    {None,
     Some([count |-> "lambda m: m.count()"]),
     Some([min |-> "None"]),
     Some([min |-> "lambda x: x.max()"]),
     Some([sum |-> "None", count |-> "lambda m: m.count()"]),
     Some([bad |-> "42"]),
     Some([mean |-> "42", count |-> "lambda m: m.count()"]),
     Some([ratio |-> "lambda x: 100 // int(x.min())"])}

\* Bands arguments that name a band the raster does not have, or none.
FaultyBandsArgs ==
    {[kind |-> "list", val |-> <<4>>], [kind |-> "list", val |-> <<0>>],
     [kind |-> "list", val |-> <<1, 4>>], [kind |-> "int", val |-> <<5>>],
     [kind |-> "list", val |-> << >>]}

\* Many geometries under the default arguments.
InitGeometries ==
    \E R \in Rasters, crs \in {"EPSG:A", "EPSG:B"} :
    \E g \in CellPolygons(R) \cup StraddlePolygons(R)
                \cup {BlockPolygon(R), RegionPolygon(R), OutsidePolygon(R),
                      TouchingPolygon(R)} :
    \E rest \in SeqsUpTo({OutsidePolygon(R), BlockPolygon(R)}, MaxFeatures - 1) :
        /\ raster = R
        /\ vector = [crs |-> crs, features |-> Features(<<g>> \o rest, crs, R.crs)]
        /\ bands_arg = [kind |-> "None", val |-> << >>]
        /\ contained = TRUE
        /\ all_touched \in {"None", "True"}
        /\ custom = None

\* Many arguments over a few geometries.
InitArguments ==
    \E R \in Rasters :
    \E geoms \in {<<BlockPolygon(R)>>, <<RegionPolygon(R), OutsidePolygon(R)>>} :
        /\ raster = R
        /\ vector = [crs |-> "EPSG:A", features |-> Features(geoms, "EPSG:A", R.crs)]
        /\ bands_arg \in BandsArgs
        /\ contained \in BOOLEAN
        /\ all_touched \in {"None", "True", "False"}
        /\ custom \in Customs

\* A point at the corner (col, row) of a pixel of raster R.
PointAt(R, col, row) ==
    [type |-> "Point",
     parts |-> <<RectOf(AffineMul(R.affine, <<col, row>>), AffineMul(R.affine, <<col, row>>))>>]

\* The line from the centre of pixel (row, c0) of raster R to the centre of
\* pixel (row, c1), in doubled pixel steps so that it follows no edge.
LineAlong(R, row, c0, c1) ==
    LET p == AffineMul(R.affine, <<c0, row>>)
        q == AffineMul(R.affine, <<c1, row>>)
        h == R.affine[1] \div 2
        v == R.affine[5] \div 2
    IN  [type |-> "LineString",
         parts |-> <<RectOf(<<p[1] + h, p[2] + v>>, <<q[1] + h, q[2] + v>>)>>]

\* L-shaped polygons: one inside the raster along its left and bottom
\* edges, one that reaches out of the raster at the bottom right.
LShapePolygons(R) ==
    {Polygon(<<PixelPolygon(R, 0, R.height, 0, 1).parts[1],
               PixelPolygon(R, R.height - 1, R.height, 0, 3).parts[1]>>),
     Polygon(<<PixelPolygon(R, 1, R.height + 1, 1, 2).parts[1],
               PixelPolygon(R, R.height, R.height + 1, 1, R.width + 1).parts[1]>>)}

\* An L-shaped polygon around the bottom left corner of the raster: its
\* bounding box covers the raster, the polygon itself stays a pixel away.
AroundPolygon(R) ==
    Polygon(<<PixelPolygon(R, -1, R.height + 2, -2, -1).parts[1],
              PixelPolygon(R, R.height + 1, R.height + 2, -2, R.width + 1).parts[1]>>)

\* Points inside the raster, on its left edge, on its top left corner and
\* on its right edge.
EdgePoints(R) ==
    {PointAt(R, 1, 1), PointAt(R, 0, 1), PointAt(R, 0, 0), PointAt(R, R.width, 2)}

\* Geometries that are not one rectangle, with the contained flag asked for.
InitContainment ==
    \E R \in {RasterA(<<2, 2>>), RasterB(<<2, 3>>)} :
    \E g \in LShapePolygons(R) \cup EdgePoints(R) \cup {AroundPolygon(R)} :
    \E rest \in SeqsUpTo({OutsidePolygon(R)}, MaxFeatures - 1) :
        /\ raster = R
        /\ vector = [crs |-> "EPSG:A", features |-> Features(<<g>> \o rest, "EPSG:A", R.crs)]
        /\ bands_arg \in {[kind |-> "list", val |-> <<1>>], [kind |-> "list", val |-> <<2, 1>>]}
        /\ contained = TRUE
        /\ all_touched \in {"None", "True"}
        /\ custom = None

\* Arguments and datasources the function fails on: bands the raster does
\* not have, a vector crs the projection library does not know, a sheared
\* raster.
InitFaults ==
    \/ \E R \in {RasterA(<<2, 2>>), RasterB(<<1, 4>>)} :
       \E geoms \in {<<BlockPolygon(R)>>, <<OutsidePolygon(R), BlockPolygon(R)>>,
                      <<OutsidePolygon(R), OutsidePolygon(R)>>} :
       \E crs \in {"EPSG:A", "EPSG:X"} :
           /\ raster = R
           /\ vector = [crs |-> crs, features |-> Features(geoms, crs, R.crs)]
           /\ bands_arg \in FaultyBandsArgs \cup {[kind |-> "None", val |-> << >>]}
           /\ contained \in BOOLEAN
           /\ all_touched = "None"
           /\ custom = None
    \/ \E geoms \in {<<MissedPolygon>>, <<OutsidePolygon(RasterS), MissedPolygon>>,
                      <<MissedPolygon, OutsidePolygon(RasterS)>>, <<GrazingPolygon>>} :
           /\ raster = RasterS
           /\ vector = [crs |-> "EPSG:A", features |-> Features(geoms, "EPSG:A", "EPSG:A")]
           /\ bands_arg = [kind |-> "None", val |-> << >>]
           /\ contained \in BOOLEAN
           /\ all_touched = "None"
           /\ custom = None

\* A south-up raster.
InitSouthUp ==
    \E geoms \in {<<PixelPolygon(RasterU, 0, 1, 0, 1)>>,
                   <<PixelPolygon(RasterU, 0, 2, 0, 2), PixelPolygon(RasterU, 1, 2, 1, 2)>>} :
        /\ raster = RasterU
        /\ vector = [crs |-> "EPSG:A", features |-> Features(geoms, "EPSG:A", "EPSG:A")]
        /\ bands_arg \in {[kind |-> "None", val |-> << >>], [kind |-> "list", val |-> <<1>>]}
        /\ contained \in BOOLEAN
        /\ all_touched \in {"None", "True"}
        /\ custom = None

\* The state at the call: no local is bound yet.
Start ==
    /\ window_band = 0
    /\ metrics = << >>
    /\ bands = << >>
    /\ stats = << >>
    /\ raster_bounds = << >>
    /\ window_index = << >>
    /\ window_ids = << >>
    /\ fidx = 0
    /\ zone_geometry = << >>
    /\ feature_metrics = << >>
    /\ subset_window = << >>
    /\ raster_subset = << >>
    /\ subset_affine = << >>
    /\ rasterized = << >>
    /\ bpos = 0
    /\ pc = "merge"
    /\ err = ""
    /\ calls = << >>
    /\ run = 1
    /\ first_stats = << >>
    /\ SummationIdle
    /\ DelimitedIdle

Init ==
    /\ InitGeometries \/ InitArguments \/ InitFaults \/ InitContainment \/ InitSouthUp
    /\ Start

\* ---------------------------------------------------------------- actions
\* zonal_stats_from_raster(vector, raster, bands, contained, all_touched,
\* custom, window_band), one action per stretch of its body.

\* The feature the loop is at.
Feature == vector.features[fidx]

\* metrics = {...}; metrics.update(**custom)
Merge ==
    /\ pc = "merge"
    /\ metrics' = MergeMetrics(custom)
    /\ pc' = "validate"
    /\ UNCHANGED <<inputs, bands, stats, raster_bounds, window_index, window_ids,
                   fidx, zone_geometry, feature_metrics, subset_window,
                   raster_subset, subset_affine, rasterized, bpos, err, calls, run,
                   first_stats>>
    /\ UNCHANGED <<summation, delimited>>

\* for name, func in metrics.items(): raise ValueError if not callable
Validate ==
    /\ pc = "validate"
    /\ IF InvalidMetrics(metrics) # {}
       THEN pc' = "error" /\ err' = "ValueError"
       ELSE pc' = "bands" /\ err' = err
    /\ UNCHANGED <<inputs, locals, calls, run, first_stats>>
    /\ UNCHANGED <<summation, delimited>>

\* bands.sort() in place of sorted(bands)
Bands_SortsInPlace ==
    /\ pc = "bands"
    /\ bands' = NormalizeBands(bands_arg, raster)
    /\ bands_arg' = IF bands_arg.kind = "list"
                    THEN [kind |-> "list", val |-> Sorted(bands_arg.val)]
                    ELSE bands_arg
    /\ calls' = IF bands_arg.kind = "None" THEN Append(calls, "raster.count") ELSE calls
    /\ pc' = "bounds"
    /\ UNCHANGED <<vector, raster, contained, all_touched, custom, window_band,
                   metrics, stats, raster_bounds, window_index, window_ids,
                   fidx, zone_geometry, feature_metrics, subset_window,
                   raster_subset, subset_affine, rasterized, bpos, err, run,
                   first_stats>>
    /\ UNCHANGED <<summation, delimited>>

\* bands = all of the raster's, [bands] or sorted(bands)
Bands ==
    /\ pc = "bands"
    /\ bands' = NormalizeBands(bands_arg, raster)
    /\ calls' = IF bands_arg.kind = "None" THEN Append(calls, "raster.count") ELSE calls
    /\ pc' = "bounds"
    /\ UNCHANGED <<inputs, metrics, stats, raster_bounds, window_index, window_ids,
                   fidx, zone_geometry, feature_metrics, subset_window,
                   raster_subset, subset_affine, rasterized, bpos, err, run,
                   first_stats>>
    /\ UNCHANGED <<summation, delimited>>

\* stats = {}; raster_bounds = Polygon(raster.bounds)
Bounds ==
    /\ pc = "bounds"
    /\ stats' = << >>
    /\ raster_bounds' = RasterBoundsPolygon(RasterBounds(raster))
    /\ calls' = Append(calls, "raster.bounds")
    /\ pc' = "index"
    /\ UNCHANGED <<inputs, metrics, bands, window_index, window_ids, fidx,
                   zone_geometry, feature_metrics, subset_window, raster_subset,
                   subset_affine, rasterized, bpos, err, run, first_stats>>
    /\ UNCHANGED <<summation, delimited>>

\* The index loop: every block of raster.block_windows(window_band) is
\* inserted under its position; an insert rtree refuses ends the function.
BuildIndex ==
    /\ pc = "index"
    /\ calls' = Append(calls, "raster.block_windows")
    /\ LET blocks == BlockWindows(raster, window_band)
           boxes == [k \in 1..Len(blocks) |-> BlockBox(blocks[k], raster.affine)]
       IN  IF \E k \in 1..Len(boxes) : ~BoxInsertable(boxes[k])
           THEN /\ pc' = "error" /\ err' = "RTreeError"
                /\ UNCHANGED <<window_index, window_ids>>
           ELSE /\ pc' = "loop" /\ err' = err
                /\ window_index' = boxes
                /\ window_ids' = blocks
    /\ UNCHANGED <<inputs, metrics, bands, stats, raster_bounds, fidx,
                   zone_geometry, feature_metrics, subset_window, raster_subset,
                   subset_affine, rasterized, bpos, run, first_stats>>
    /\ UNCHANGED <<summation, delimited>>

\* for feature in vector: reproject its geometry, start its record.
\* transform_geom raises for a crs it does not know.
Reproject ==
    /\ pc = "loop"
    /\ fidx < Len(vector.features)
    /\ fidx' = fidx + 1
    /\ calls' = Append(calls, "transform_geom")
    /\ IF KnownCrs(vector.crs) /\ KnownCrs(raster.crs)
       THEN /\ zone_geometry' = TransformGeom(vector.crs, raster.crs,
                                              vector.features[fidx + 1].geometry)
            /\ feature_metrics' = [outside |-> FALSE]
            /\ pc' = "outside"
            /\ err' = err
       ELSE /\ pc' = "error"
            /\ err' = "CRSError"
            /\ UNCHANGED <<zone_geometry, feature_metrics>>
    /\ UNCHANGED <<inputs, metrics, bands, stats, raster_bounds, window_index,
                   window_ids, subset_window, raster_subset, subset_affine,
                   rasterized, bpos, run, first_stats>>
    /\ UNCHANGED <<summation, delimited>>

\* The contained flag set before the outside test.
MarkOutside_WithContained(record) ==
    Put(Put(record, "outside", TRUE), "contained", FALSE)

\* feature_metrics['outside'] = True
MarkOutside(record) == Put(record, "outside", TRUE)

\* The contained flag computed whether asked for or not.
MarkInside_AlwaysContained(record, want_contained, bounds_polygon, geometry) ==
    Put(Put(record, "bands", << >>), "contained",
        GeomContains(bounds_polygon, geometry))

\* feature_metrics['bands'] = {} and, if contained is asked for,
\* feature_metrics['contained'] = raster_bounds.contains(zone_geometry)
MarkInside(record, want_contained, bounds_polygon, geometry) ==
    IF want_contained
    THEN Put(Put(record, "bands", << >>), "contained",
             GeomContains(bounds_polygon, geometry))
    ELSE Put(record, "bands", << >>)

\* The outside test that lets an outside feature go on to its window.
OutsideTest_GoesOn ==
    /\ pc = "outside"
    /\ IF ~GeomIntersects(zone_geometry, raster_bounds)
       THEN /\ feature_metrics' = MarkOutside(feature_metrics)
            /\ stats' = DictSet(stats, Feature.id, MarkOutside(feature_metrics))
            /\ pc' = "window"
       ELSE /\ feature_metrics' =
                  MarkInside(feature_metrics, contained, raster_bounds, zone_geometry)
            /\ stats' = stats
            /\ pc' = "window"
    /\ UNCHANGED <<inputs, metrics, bands, raster_bounds, window_index, window_ids,
                   fidx, zone_geometry, subset_window, raster_subset, subset_affine,
                   rasterized, bpos, err, calls, run, first_stats>>
    /\ UNCHANGED <<summation, delimited>>

\* The outside test; an outside feature is stored at once, any other gets
\* its bands dict and, if asked for, its contained flag.
OutsideTest ==
    /\ pc = "outside"
    /\ IF ~GeomIntersects(zone_geometry, raster_bounds)
       THEN /\ feature_metrics' = MarkOutside(feature_metrics)
            /\ stats' = DictSet(stats, Feature.id, MarkOutside(feature_metrics))
            /\ pc' = "loop"
       ELSE /\ feature_metrics' =
                  MarkInside(feature_metrics, contained, raster_bounds, zone_geometry)
            /\ stats' = stats
            /\ pc' = "window"
    /\ UNCHANGED <<inputs, metrics, bands, raster_bounds, window_index, window_ids,
                   fidx, zone_geometry, subset_window, raster_subset, subset_affine,
                   rasterized, bpos, err, calls, run, first_stats>>
    /\ UNCHANGED <<summation, delimited>>

\* The windows of the blocks the index returns and the window around them;
\* indexing the empty windows array raises IndexError.
ResolveWindow ==
    /\ pc = "window"
    /\ calls' = Append(calls, "window_index.intersection")
    /\ LET iw == IntersectingWindows(window_ids, window_index, GeomBounds(zone_geometry))
       IN  IF iw = << >>
           THEN /\ pc' = "error"
                /\ err' = "IndexError: too many indices"
                /\ subset_window' = subset_window
           ELSE /\ pc' = "read"
                /\ err' = err
                /\ subset_window' = SubsetWindow(iw)
    /\ UNCHANGED <<inputs, metrics, bands, stats, raster_bounds, window_index,
                   window_ids, fidx, zone_geometry, feature_metrics, raster_subset,
                   subset_affine, rasterized, bpos, run, first_stats>>
    /\ UNCHANGED <<summation, delimited>>

\* raster.read(bands, window=subset_window) and the subset's affine; what
\* a read of an empty list of bands does is the library's choice: it raises
\* or gives an array of no bands.
ReadSubset ==
    /\ pc = "read"
    /\ calls' = Append(calls, "raster.read")
    /\ \E refused \in (IF bands = << >> THEN BOOLEAN ELSE {FALSE}) :
       LET read == RasterRead(raster, bands, subset_window)
       IN  IF ~read.ok \/ refused
           THEN /\ pc' = "error" /\ err' = "ReadError"
                /\ UNCHANGED <<raster_subset, subset_affine>>
           ELSE /\ pc' = "rasterize" /\ err' = err
                /\ raster_subset' = AsMaskedArray(read)
                /\ subset_affine' = SubsetAffine(raster.affine, subset_window)
    /\ UNCHANGED <<inputs, metrics, bands, stats, raster_bounds, window_index,
                   window_ids, fidx, zone_geometry, feature_metrics, subset_window,
                   rasterized, bpos, run, first_stats>>
    /\ UNCHANGED <<summation, delimited>>

\* rasterize the geometry over raster_subset[0].shape; all_touched=None is
\* falsy.  raster_subset[0] of an empty subset raises IndexError.
RasterizeZone ==
    /\ pc = "rasterize"
    /\ IF Len(raster_subset) = 0
       THEN /\ pc' = "error" /\ err' = "IndexError: index 0 is out of bounds"
            /\ UNCHANGED <<rasterized, bpos, calls>>
       ELSE /\ pc' = "reduce" /\ err' = err
            /\ rasterized' = Rasterize(zone_geometry, Shape(raster_subset[1].data),
                                       subset_affine, all_touched = "True")
            /\ bpos' = 1
            /\ calls' = Append(calls, "rasterize")
    /\ UNCHANGED <<inputs, metrics, bands, stats, raster_bounds, window_index,
                   window_ids, fidx, zone_geometry, feature_metrics, subset_window,
                   raster_subset, subset_affine, run, first_stats>>
    /\ UNCHANGED <<summation, delimited>>

\* One turn of the band loop: mask the band, compute its metrics, store
\* them under bidx and assign a copy of the record to stats[feature id].
\* Calling a value that is not callable raises TypeError; what a metric
\* function raises ends the function, the record of the band unassigned.
ReduceBand ==
    /\ pc = "reduce"
    /\ bpos <= Len(bands)
    /\ LET bidx == bands[bpos]
           np_bidx == BandMap(bands, bidx)
           masked_subset == MaskedSubset(raster_subset[np_bidx + 1], rasterized)
           raised == {Call(metrics[name], masked_subset)[1] :
                         name \in {n \in StoredMetrics(metrics) :
                                      /\ Callable(metrics[n])
                                      /\ Raises(Call(metrics[n], masked_subset))}}
       IN  IF \E name \in StoredMetrics(metrics) : ~Callable(metrics[name])
           THEN /\ pc' = "error" /\ err' = "TypeError"
                /\ UNCHANGED <<feature_metrics, stats, bpos>>
           ELSE IF raised # {}
           THEN /\ pc' = "error" /\ err' \in raised
                /\ UNCHANGED <<feature_metrics, stats, bpos>>
           ELSE LET record == Put(feature_metrics, "bands",
                                  DictSet(feature_metrics.bands, bidx,
                                          BandRecord(metrics, masked_subset)))
                IN  /\ feature_metrics' = record
                    /\ stats' = DictSet(stats, Feature.id, record)
                    /\ bpos' = bpos + 1
                    /\ pc' = IF bpos = Len(bands) THEN "loop" ELSE "reduce"
                    /\ err' = err
    /\ calls' = Append(calls, "metrics")
    /\ UNCHANGED <<inputs, metrics, bands, raster_bounds, window_index, window_ids,
                   fidx, zone_geometry, subset_window, raster_subset, subset_affine,
                   rasterized, run, first_stats>>
    /\ UNCHANGED <<summation, delimited>>

\* return stats, reached also from a failed step: the error swallowed.
Return_AfterError ==
    /\ \/ pc = "loop" /\ fidx = Len(vector.features)
       \/ pc = "error" /\ fidx >= 1
    /\ pc' = "done"
    /\ UNCHANGED <<inputs, locals, err, calls, run, first_stats>>
    /\ UNCHANGED <<summation, delimited>>

\* return stats
Return ==
    /\ pc = "loop"
    /\ fidx = Len(vector.features)
    /\ pc' = "done"
    /\ UNCHANGED <<inputs, locals, err, calls, run, first_stats>>
    /\ UNCHANGED <<summation, delimited>>

\* The caller calls the function again with the same objects.
Rerun ==
    /\ pc = "done"
    /\ run = 1
    /\ run' = 2
    /\ first_stats' = stats
    /\ metrics' = << >>
    /\ bands' = << >>
    /\ stats' = << >>
    /\ raster_bounds' = << >>
    /\ window_index' = << >>
    /\ window_ids' = << >>
    /\ fidx' = 0
    /\ zone_geometry' = << >>
    /\ feature_metrics' = << >>
    /\ subset_window' = << >>
    /\ raster_subset' = << >>
    /\ subset_affine' = << >>
    /\ rasterized' = << >>
    /\ bpos' = 0
    /\ calls' = << >>
    /\ pc' = "merge"
    /\ UNCHANGED <<inputs, err>>
    /\ UNCHANGED <<summation, delimited>>

Next ==
    \/ Merge
    \/ Validate
    \/ Bands
    \/ Bounds
    \/ BuildIndex
    \/ Reproject
    \/ OutsideTest
    \/ ResolveWindow
    \/ ReadSubset
    \/ RasterizeZone
    \/ ReduceBand
    \/ Return
    \/ Rerun

Spec == Init /\ [][Next]_vars

\* --------------------------------------------------- zonal_statistics.py
\* The function of the same name in src/zonal_statistics.py.  Its merge,
\* validation, bounds, reprojection and outside test are line for line
\* those above; the actions below are the stretches that differ.  Its
\* vector also has a schema, whose geometry is the type of its features.

\* if all_touched is None and 'Point' in vector.schema['geometry']
\*     or 'Line' in vector.schema['geometry']: all_touched = True
VariantAllTouched(touched, geometry_type) ==
    IF \/ touched = "None" /\ geometry_type \in {"Point", "MultiPoint"}
       \/ geometry_type \in {"LineString", "MultiLineString"}
    THEN "True"
    ELSE touched

\* The all_touched default and the bands: all of the raster's for None,
\* [bands] for a list of one, the list itself otherwise; len(bands) of an
\* int raises TypeError.
VariantBands ==
    /\ pc = "bands"
    /\ all_touched' = VariantAllTouched(all_touched, vector.schema.geometry)
    /\ IF bands_arg.kind = "int"
       THEN /\ pc' = "error" /\ err' = "TypeError"
            /\ UNCHANGED <<bands, calls>>
       ELSE /\ pc' = "bounds" /\ err' = err
            /\ bands' = IF bands_arg.kind = "None" THEN Range(1, raster.count + 1)
                         ELSE IF Len(bands_arg.val) = 1 THEN <<bands_arg.val>>
                         ELSE bands_arg.val
            /\ calls' = IF bands_arg.kind = "None" THEN Append(calls, "raster.count")
                         ELSE calls
    /\ UNCHANGED <<vector, raster, bands_arg, contained, custom, window_band,
                   metrics, stats, raster_bounds, window_index, window_ids,
                   fidx, zone_geometry, feature_metrics, subset_window,
                   raster_subset, subset_affine, rasterized, bpos, run,
                   first_stats>>
    /\ UNCHANGED <<summation, delimited>>

\* The box of a block: the affine applied to (row_start, row_stop) gives
\* (y_min, y_max), applied to (col_start, col_stop) gives (x_min, x_max).
VariantBlockBox(b, aff) ==
    LET ys == AffineMul(aff, b[2][1])
        xs == AffineMul(aff, b[2][2])
    IN  <<xs[1], ys[1], xs[2], ys[2]>>

\* The index loop with these boxes.
VariantBuildIndex ==
    /\ pc = "index"
    /\ calls' = Append(calls, "raster.block_windows")
    /\ LET blocks == BlockWindows(raster, window_band)
           boxes == [k \in 1..Len(blocks) |-> VariantBlockBox(blocks[k], raster.affine)]
       IN  IF \E k \in 1..Len(boxes) : ~BoxInsertable(boxes[k])
           THEN /\ pc' = "error" /\ err' = "RTreeError"
                /\ UNCHANGED <<window_index, window_ids>>
           ELSE /\ pc' = "loop" /\ err' = err
                /\ window_index' = boxes
                /\ window_ids' = blocks
    /\ UNCHANGED <<inputs, metrics, bands, stats, raster_bounds, fidx,
                   zone_geometry, feature_metrics, subset_window, raster_subset,
                   subset_affine, rasterized, bpos, run, first_stats>>
    /\ UNCHANGED <<summation, delimited>>

\* The window around the blocks the index returns, and the read of every
\* band of the raster through it.
VariantRead ==
    /\ pc = "window"
    /\ LET iw == IntersectingWindows(window_ids, window_index, GeomBounds(zone_geometry))
       IN  IF iw = << >>
           THEN /\ pc' = "error"
                /\ err' = "IndexError: too many indices"
                /\ calls' = Append(calls, "window_index.intersection")
                /\ UNCHANGED <<subset_window, raster_subset>>
           ELSE LET read == RasterRead(raster, Range(1, raster.count + 1), SubsetWindow(iw))
                IN  /\ subset_window' = SubsetWindow(iw)
                    /\ calls' = calls \o <<"window_index.intersection", "raster.read">>
                    /\ IF read.ok
                       THEN /\ pc' = "rasterize" /\ err' = err
                            /\ raster_subset' = read.bands
                       ELSE /\ pc' = "error" /\ err' = "ReadError"
                            /\ UNCHANGED raster_subset
    /\ UNCHANGED <<inputs, metrics, bands, stats, raster_bounds, window_index,
                   window_ids, fidx, zone_geometry, feature_metrics,
                   subset_affine, rasterized, bpos, run, first_stats>>
    /\ UNCHANGED <<summation, delimited>>

\* rasterio.features.rasterize called without a transform uses the
\* identity affine.
IdentityAffine == <<1, 0, 0, 0, 1, 0>>

\* rasterize over raster_subset[:, 0].shape, (bands, columns), without a
\* transform (subset_affine keeps the one rasterize falls back to); then
\* the prints and the bare return: the function returns None, the band
\* loop below it is never reached.
VariantRasterize ==
    /\ pc = "rasterize"
    /\ subset_affine' = IdentityAffine
    /\ rasterized' = Rasterize(zone_geometry,
                               <<Len(raster_subset), Cols(raster_subset[1].data)>>,
                               IdentityAffine, all_touched = "True")
    /\ calls' = Append(calls, "rasterize")
    /\ pc' = "return None"
    /\ UNCHANGED <<inputs, metrics, bands, stats, raster_bounds, window_index,
                   window_ids, fidx, zone_geometry, feature_metrics, subset_window,
                   raster_subset, bpos, err, run, first_stats>>
    /\ UNCHANGED <<summation, delimited>>

\* Vectors with their schema, over every kind of bands argument.
InitVariant ==
    \E R \in Rasters :
    \E shapes \in {[type |-> "Polygon", geoms |-> <<BlockPolygon(R)>>],
                    [type |-> "Polygon", geoms |-> <<OutsidePolygon(R), RegionPolygon(R)>>],
                    [type |-> "Polygon", geoms |-> <<OutsidePolygon(R), OutsidePolygon(R)>>],
                    [type |-> "Point", geoms |-> <<PointAt(R, 1, 1)>>],
                    [type |-> "Point", geoms |-> <<PointAt(R, R.width + 2, 1), PointAt(R, 2, 2)>>],
                    [type |-> "Point", geoms |-> <<PointAt(R, R.width + 2, 1)>>],
                    [type |-> "LineString", geoms |-> <<LineAlong(R, 1, 0, 2)>>],
                    [type |-> "LineString",
                     geoms |-> <<LineAlong(R, R.height + 2, 0, 2), LineAlong(R, 1, 1, 3)>>]} :
        /\ shapes.type = "LineString" => R.affine[1] % 2 = 0
        /\ raster = R
        /\ vector = [crs |-> "EPSG:A",
                     features |-> Features(shapes.geoms, "EPSG:A", R.crs),
                     schema |-> [geometry |-> shapes.type]]
        /\ bands_arg \in BandsArgs \cup {[kind |-> "list", val |-> << >>]}
        /\ contained \in BOOLEAN
        /\ all_touched \in {"None", "True", "False"}
        /\ custom \in {None, Some([count |-> "lambda m: m.count()"]), Some([bad |-> "42"])}
        /\ Start

NextVariant ==
    \/ Merge
    \/ Validate
    \/ VariantBands
    \/ Bounds
    \/ VariantBuildIndex
    \/ Reproject
    \/ OutsideTest
    \/ VariantRead
    \/ VariantRasterize
    \/ Return

SpecVariant == InitVariant /\ [][NextVariant]_vars

\* -------------------------------------------- delimited2datasource.py
\* main of src/delimited2datasource.py from the cached first feature on.
\* A row of the input is "ok", "bad row" (its conversion to a feature
\* raises in dict_reader_as_geojson) or "bad write" (it converts, and
\* transform_geom or the write of its feature raises).

\* The most rows of an input file.
MaxRows == 4

\* The zonal statistics function is not running.
ZonalIdle ==
    /\ vector = << >> /\ raster = << >> /\ bands_arg = << >> /\ contained = FALSE
    /\ custom = << >> /\ window_band = 0 /\ metrics = << >> /\ bands = << >>
    /\ stats = << >> /\ raster_bounds = << >> /\ window_index = << >>
    /\ window_ids = << >> /\ fidx = 0 /\ zone_geometry = << >>
    /\ feature_metrics = << >> /\ subset_window = << >> /\ raster_subset = << >>
    /\ subset_affine = << >> /\ rasterized = << >> /\ bpos = 0 /\ calls = << >>
    /\ run = 1 /\ first_stats = << >>

zonal == <<vector, raster, bands_arg, contained, custom, window_band, locals,
           calls, run, first_stats>>

\* next(feature_generator) after `taken` rows: the generator yields the
\* feature of the next row that converts, its id the row's number; a row
\* that does not convert is skipped with skip_failures and raised without;
\* at the end of the rows the generator stops.
RECURSIVE GeneratorNext(_, _, _)
GeneratorNext(rows, taken, skip) ==
    IF taken >= Len(rows) THEN [kind |-> "stop", taken |-> taken, id |-> 0]
    ELSE IF rows[taken + 1] # "bad row"
    THEN [kind |-> "yield", taken |-> taken + 1, id |-> taken]
    ELSE IF skip THEN GeneratorNext(rows, taken + 1, skip)
    ELSE [kind |-> "raise", taken |-> taken + 1, id |-> 0]

\* first_plus_iterator(first, iterator): for the first item taken from the
\* iterator it yields first in its place, then every further item.
FirstPlusIterator(flag, first, item) == IF ~flag THEN first ELSE item

\* idx + 1 is subsample + skip_lines (identity of small ints is equality)
ReachedSubsample(i, sub, skip) == i + 1 = sub + skip

\* first_feature = next(feature_generator)
CacheFirst ==
    /\ pc = "first"
    /\ LET g == GeneratorNext(reader, row_num, skip_failures)
       IN  /\ row_num' = g.taken
           /\ IF g.kind = "yield"
              THEN /\ first_feature' = [id |-> g.id]
                   /\ pc' = "loop"
                   /\ err' = err
              ELSE /\ first_feature' = first_feature
                   /\ pc' = "error"
                   /\ err' = IF g.kind = "stop" THEN "StopIteration" ELSE "Exception"
    /\ UNCHANGED <<reader, skip_failures, skip_lines, subsample, yielded_first, idx,
                   feature, output>>
    /\ UNCHANGED <<zonal, all_touched, summation>>

\* for idx, feature in enumerate(first_plus_iterator(first_feature,
\* feature_generator)): the next turn of the loop, or its end and
\* sys.exit(0).
NextItem ==
    /\ pc = "loop"
    /\ LET g == GeneratorNext(reader, row_num, skip_failures)
       IN  /\ row_num' = g.taken
           /\ IF g.kind = "yield"
              THEN /\ feature' = FirstPlusIterator(yielded_first, first_feature, [id |-> g.id])
                   /\ yielded_first' = TRUE
                   /\ idx' = IF yielded_first THEN idx + 1 ELSE 0
                   /\ pc' = "body"
                   /\ err' = err
              ELSE /\ UNCHANGED <<feature, yielded_first, idx>>
                   /\ pc' = IF g.kind = "stop" THEN "exit" ELSE "error"
                   /\ err' = IF g.kind = "stop" THEN err ELSE "Exception"
    /\ UNCHANGED <<reader, skip_failures, skip_lines, subsample, first_feature, output>>
    /\ UNCHANGED <<zonal, all_touched, summation>>

\* The body of the loop: nothing below skip_lines; else the feature is
\* reprojected and written and the loop is left when the subsample is
\* reached; an exception of the two is dropped with skip_failures, and
\* with it the test of the subsample.
WriteFeature ==
    /\ pc = "body"
    /\ IF idx < skip_lines
       THEN pc' = "loop" /\ err' = err /\ output' = output
       ELSE IF reader[feature.id + 1] = "ok"
       THEN /\ output' = Append(output, feature.id)
            /\ pc' = IF ReachedSubsample(idx, subsample, skip_lines) THEN "exit" ELSE "loop"
            /\ err' = err
       ELSE /\ output' = output
            /\ pc' = IF skip_failures THEN "loop" ELSE "error"
            /\ err' = IF skip_failures THEN err ELSE "Exception"
    /\ UNCHANGED <<reader, skip_failures, skip_lines, subsample, row_num,
                   first_feature, yielded_first, idx, feature>>
    /\ UNCHANGED <<zonal, all_touched, summation>>

InitDelimited ==
    /\ reader \in SeqsUpTo({"ok", "bad row", "bad write"}, MaxRows)
    /\ skip_failures \in BOOLEAN
    /\ skip_lines \in 0..(MaxRows - 2)
    /\ subsample \in 0..(MaxRows - 2)
    /\ row_num = 0
    /\ first_feature = << >>
    /\ yielded_first = FALSE
    /\ idx = 0
    /\ feature = << >>
    /\ output = << >>
    /\ pc = "first"
    /\ err = ""
    /\ all_touched = "None"
    /\ ZonalIdle
    /\ SummationIdle

NextDelimited ==
    \/ CacheFirst
    \/ NextItem
    \/ WriteFeature

SpecDelimited == InitDelimited /\ [][NextDelimited]_vars

\* ------------------------------------------------------ summation-raster.py
\* main of src/summation-raster.py from the opening of the output raster on.
\* A feature is [geometry, value], value the property named by --property
\* (None when the feature has none); a pixel of the output is None until it
\* is written and Some(v) after.

Point(x, y) == [type |-> "Point", parts |-> <<(<<x, y, x, y>>)>>]

\* add_val of a feature: its property, 0 for a property of None, and 1
\* for density.
AddVal(name, f) ==
    IF name = None THEN 1 ELSE IF f.value = None THEN 0 ELSE f.value[1]

\* src.bounds of the features of a layer
LayerBounds(features) ==
    <<SetMin({GeomBounds(features[i].geometry)[1] : i \in 1..Len(features)}),
      SetMin({GeomBounds(features[i].geometry)[2] : i \in 1..Len(features)}),
      SetMax({GeomBounds(features[i].geometry)[3] : i \in 1..Len(features)}),
      SetMax({GeomBounds(features[i].geometry)[4] : i \in 1..Len(features)})>>

\* raster_meta: the output raster over the bounds of the layer with pixels
\* of res x res units, its origin the upper left corner
RasterMeta(bounds, res, striped) ==
    LET w == (bounds[3] - bounds[1]) \div res
        h == (bounds[4] - bounds[2]) \div res
    IN  [affine |-> <<res, 0, bounds[1], 0, 0 - res, bounds[4]>>,
         width |-> w,
         height |-> h,
         block_shape |-> IF striped THEN <<1, w>> ELSE <<h, w>>,
         data |-> [r \in 0..(h - 1) |-> [c \in 0..(w - 1) |-> None]]]

\* ((row_min, row_max), (col_min, col_max)) of the block at position k
BlockWindow(k) == BlockWindows(dst, 1)[k][2]

\* (x_min, y_min, x_max, y_max) of a block window
WindowBBox(aff, w) ==
    LET lo == AffineMul(aff, <<w[2][1], w[1][2]>>)
        hi == AffineMul(aff, <<w[2][2], w[1][1]>>)
    IN  <<lo[1], lo[2], hi[1], hi[2]>>

\* src.filter(bbox=bbox): the features whose bounds meet the box, in the
\* order of the layer
RECURSIVE Filter(_, _)
Filter(features, bbox) ==
    IF features = << >> THEN << >>
    ELSE IF BoxesIntersect(GeomBounds(Head(features).geometry), bbox)
    THEN <<Head(features)>> \o Filter(Tail(features), bbox)
    ELSE Filter(Tail(features), bbox)

\* (int(_i) for _i in ~dst.affine * point[:2]) of an affine without
\* rotation and a point inside the raster's bounds: (col, row)
PointPixel(aff, g) ==
    <<(g.parts[1][1] - aff[3]) \div aff[1],
      (aff[6] - g.parts[1][2]) \div (0 - aff[5])>>

\* window_geometry.union(g)
Clipped(bbox, g) == Polygon(<<bbox>> \o g.parts)

\* The origin of the subset window: dst.affine * (row_min, col_min)
SubsetOrigin(aff, w) == AffineMul(aff, <<w[1][1], w[2][1]>>)

\* The block after the body of the feature loop for feature f, or the
\* error of the body: the add value at the pixel of a point, or the
\* rasterized union of the window and the polygon added to the block;
\* then every 0 of the block becomes nodata.
BlockAfter(b, w, f) ==
    LET aff == dst.affine
        rows == w[1][2] - w[1][1]
        cols == w[2][2] - w[2][1]
        bbox == WindowBBox(aff, w)
        g == f.geometry
        px == PointPixel(aff, g)
        r == px[2] - w[1][1]
        c == px[1] - w[2][1]
        rr == IF r < 0 THEN r + rows ELSE r
        cc == IF c < 0 THEN c + cols ELSE c
        origin == SubsetOrigin(aff, w)
        subset_aff == <<aff[1], aff[2], origin[1], aff[4], aff[5], origin[2]>>
        burned == Rasterize(Clipped(bbox, g), <<rows, cols>>, subset_aff,
                            all_touched = "True")
        value == IF property_name = None THEN 1 ELSE f.value[1]
        added ==
            IF g.type = "Point"
            THEN [i \in 0..(rows - 1) |-> [j \in 0..(cols - 1) |->
                    IF i = rr /\ j = cc THEN b[i][j] + AddVal(property_name, f)
                    ELSE b[i][j]]]
            ELSE IF GeomIntersects(g, Polygon(<<bbox>>))
            THEN [i \in 0..(rows - 1) |-> [j \in 0..(cols - 1) |->
                    IF burned[i][j] THEN b[i][j] + value ELSE b[i][j]]]
            ELSE b
    IN  IF g.type = "Point" /\ ~(rr \in 0..(rows - 1) /\ cc \in 0..(cols - 1))
        THEN [ok |-> FALSE, block |-> b]
        ELSE [ok |-> TRUE,
              block |-> [i \in 0..(rows - 1) |-> [j \in 0..(cols - 1) |->
                            IF added[i][j] = 0 THEN nodata ELSE added[i][j]]]]

\* dst.write_band(1, block, window=window)
WriteBand(data, b, w) ==
    [r \in DOMAIN data |-> [c \in DOMAIN data[r] |->
        IF w[1][1] <= r /\ r < w[1][2] /\ w[2][1] <= c /\ c < w[2][2]
        THEN Some(b[r - w[1][1]][c - w[2][1]])
        ELSE data[r][c]]]

\* for pos, window in block_windows: the next block, a block of zeros and
\* the features of its box; after the last block the script ends.
NextBlock ==
    /\ pc = "block"
    /\ IF block_pos >= Len(BlockWindows(dst, 1))
       THEN pc' = "exit" /\ UNCHANGED <<block, block_pos, pending>>
       ELSE LET w == BlockWindows(dst, 1)[block_pos + 1][2]
            IN  /\ block_pos' = block_pos + 1
                /\ block' = [i \in 0..(w[1][2] - w[1][1] - 1) |->
                                [j \in 0..(w[2][2] - w[2][1] - 1) |-> 0]]
                /\ pending' = Filter(src.features, WindowBBox(dst.affine, w))
                /\ pc' = "feature"
    /\ UNCHANGED <<src, dst, nodata, property_name, err>>
    /\ UNCHANGED <<zonal, all_touched, delimited>>

\* for feature in src.filter(bbox): the whole body for the next feature,
\* the block written to the output at its end; after the last feature
\* the loop of the blocks goes on.
AddFeature ==
    /\ pc = "feature"
    /\ IF pending = << >>
       THEN pc' = "block" /\ UNCHANGED <<block, pending, dst, err>>
       ELSE LET w == BlockWindow(block_pos)
                after == BlockAfter(block, w, Head(pending))
            IN  IF after.ok
                THEN /\ block' = after.block
                     /\ dst' = [dst EXCEPT !.data = WriteBand(dst.data, after.block, w)]
                     /\ pending' = Tail(pending)
                     /\ UNCHANGED <<pc, err>>
                ELSE /\ pc' = "error"
                     /\ err' = "IndexError"
                     /\ UNCHANGED <<block, pending, dst>>
    /\ UNCHANGED <<src, nodata, property_name, block_pos>>
    /\ UNCHANGED <<zonal, all_touched, delimited>>

\* Two partly overlapping polygons A and B and points, with the values of
\* their property
LayerFeatures ==
    {[geometry |-> Polygon(<<(<<0, 0, 4, 4>>)>>), value |-> Some(1)],
     [geometry |-> Polygon(<<(<<2, 2, 8, 4>>)>>), value |-> Some(2)],
     [geometry |-> Polygon(<<(<<2, 2, 8, 4>>)>>), value |-> Some(-1)],
     [geometry |-> Point(3, 3), value |-> Some(2)],
     [geometry |-> Point(3, 3), value |-> Some(-2)],
     [geometry |-> Point(5, 1), value |-> None]}

InitSummation ==
    /\ \E features \in SeqsUpTo(LayerFeatures, MaxFeatures) \ {<< >>},
          res \in {1, 2}, striped \in BOOLEAN :
          /\ \A i \in 1..Len(features) :
                features[i].geometry.type = "Polygon" => features[i].value # None
          /\ src = [bounds |-> LayerBounds(features), features |-> features]
          /\ dst = RasterMeta(LayerBounds(features), res, striped)
          /\ dst.width >= 1 /\ dst.height >= 1
    /\ nodata \in {0, -1}
    /\ property_name \in {None, Some("ID")}
    /\ all_touched \in {"False", "True"}
    /\ block = << >>
    /\ block_pos = 0
    /\ pending = << >>
    /\ pc = "block"
    /\ err = ""
    /\ ZonalIdle
    /\ DelimitedIdle

NextSummation ==
    \/ NextBlock
    \/ AddFeature

SpecSummation == InitSummation /\ [][NextSummation]_vars

\* ----------------------------------------------------------------- claims
\* What the claims speak of, stated from the inputs alone.

\* The raster's bounding box in world coordinates.
RasterBox == RasterBounds(raster)

\* The geometry of feature i in the raster's crs.
ZoneOf(i) == TransformGeom(vector.crs, raster.crs, vector.features[i].geometry)

\* The bounding box of feature i misses the raster's bounding box.
BBoxOutside(i) == ~BoxesIntersect(GeomBounds(ZoneOf(i)), RasterBox)

\* The loop is through with feature i.
Finished(i) == pc # "error" /\ (i < fidx \/ (i = fidx /\ pc \in {"loop", "done"}))

\* The result entry of feature i.
Entry(i) == DictGet(stats, vector.features[i].id)

\* C1: the entry of every feature whose bounding box misses the raster's
\* bounding box is exactly {outside: true}: no bands key and, whatever the
\* contained argument, no contained key.
C1_OutsideEntryIsBare ==
    \A i \in 1..Len(vector.features) :
        (Finished(i) /\ BBoxOutside(i)) =>
            /\ DictHas(stats, vector.features[i].id)
            /\ DOMAIN Entry(i) = {"outside"}
            /\ Entry(i).outside = TRUE

C1_Witness ==
    /\ pc = "done"
    /\ contained = TRUE
    /\ \E i \in 1..Len(vector.features) :
          BBoxOutside(i) /\ DOMAIN Entry(i) = {"outside"}

\* A metric value that is neither None nor callable.
BadValue(func) == func # "None" /\ ~Callable(func)

\* The caller's custom mapping holds a bad value (every default is callable).
BadCustom == custom # None /\ \E name \in DOMAIN custom[1] : BadValue(custom[1][name])

\* The band records of feature i, in stored order: <<band index, record>>.
BandsOf(i) == Entry(i).bands

\* The function has returned stats, in which feature i has an entry with
\* band records.
HasBands(i) ==
    /\ pc = "done"
    /\ DictHas(stats, vector.features[i].id)
    /\ "bands" \in DOMAIN Entry(i)

\* C2 (as claimed): every metric name whose merged value is None is a key
\* of every band record of every non-outside feature, with value None.
C2_DisabledMetricKeptAsNone ==
    \A i \in 1..Len(vector.features) :
        HasBands(i) =>
            \A k \in 1..Len(BandsOf(i)) :
                \A name \in DOMAIN metrics :
                    metrics[name] = "None" =>
                        /\ name \in DOMAIN BandsOf(i)[k][2]
                        /\ BandsOf(i)[k][2][name] = PyNone

\* C4: a merged metric value that is neither None nor callable ends the
\* function with ValueError right after the merge: before any access to the
\* raster, before any feature is taken and never from inside the loop.
C4_BadMetricFailsFast ==
    (BadCustom /\ pc \notin {"merge", "validate"}) =>
        /\ pc = "error"
        /\ err = "ValueError"
        /\ calls = << >>
        /\ fidx = 0
        /\ stats = << >>

C4_Witness ==
    /\ BadCustom
    /\ pc = "error"
    /\ err = "ValueError"
    /\ calls = << >>

\* Pixel (r, c) of the whole raster is covered by the geometry of feature i.
Covered(i, r, c) ==
    PixelBurned(ZoneOf(i), raster.affine, all_touched = "True", r, c)

\* The cells of band b that hold a valid value and that feature i covers.
ValidCovered(i, b) ==
    {p \in (0..(raster.height - 1)) \X (0..(raster.width - 1)) :
        /\ Covered(i, p[1], p[2])
        /\ raster.data[b][p[1]][p[2]] \notin raster.nodatavals[b]}

\* Band b of the whole raster with every other cell masked.
ZonePixels(i, b) ==
    [data |-> raster.data[b],
     mask |-> [r \in 0..(raster.height - 1) |-> [c \in 0..(raster.width - 1) |->
                 \/ ~Covered(i, r, c)
                 \/ raster.data[b][r][c] \in raster.nodatavals[b]]]]

CustomNames == IF custom = None THEN {} ELSE DOMAIN custom[1]

\* C3: the metrics of every band are the defaults with the custom mapping
\* merged on top: a default name the caller does not name keeps the default
\* function, a name the caller gives a function for (new or a default's)
\* gets the caller's function, no other name appears, and every function is
\* applied to the same valid covered pixels; a count metric on a fully
\* valid 3 x 3 region of value 5 gives count 9 next to sum 45.
C3_CustomMergedOnDefaults ==
    /\ pc \notin {"merge", "error"} =>
          /\ DOMAIN metrics = (DOMAIN DefaultMetrics) \cup CustomNames
          /\ \A name \in CustomNames : metrics[name] = custom[1][name]
          /\ \A name \in (DOMAIN DefaultMetrics) \ CustomNames :
                metrics[name] = DefaultMetrics[name]
    /\ \A i \in 1..Len(vector.features) :
        HasBands(i) =>
            \A k \in 1..Len(BandsOf(i)) :
                LET b == BandsOf(i)[k][1]
                    rec == BandsOf(i)[k][2]
                IN  /\ DOMAIN rec \subseteq (DOMAIN DefaultMetrics) \cup CustomNames
                    /\ \A name \in (DOMAIN DefaultMetrics) \ CustomNames :
                          /\ name \in DOMAIN rec
                          /\ rec[name] = Call(DefaultMetrics[name], ZonePixels(i, b))
                    /\ \A name \in CustomNames :
                          Callable(custom[1][name]) =>
                              /\ name \in DOMAIN rec
                              /\ rec[name] = Call(custom[1][name], ZonePixels(i, b))
                    /\ ( /\ all_touched # "True"
                         /\ ZoneOf(i) = RegionPolygon(raster)
                         /\ \A r \in 0..2, c \in 0..2 : raster.data[b][r][c] = 5
                         /\ raster.nodatavals[b] = {}
                         /\ "sum" \notin CustomNames
                         /\ "count" \in CustomNames
                         /\ custom[1]["count"] = "lambda m: m.count()" )
                       => (rec["count"] = Num(9) /\ rec["sum"] = Num(45))

C3_Witness ==
    /\ pc = "done"
    /\ custom = Some([count |-> "lambda m: m.count()"])
    /\ HasBands(1)
    /\ ZoneOf(1) = RegionPolygon(raster)
    /\ \E k \in 1..Len(BandsOf(1)) :
          /\ BandsOf(1)[k][1] = 1
          /\ BandsOf(1)[k][2]["count"] = Num(9)
          /\ BandsOf(1)[k][2]["sum"] = Num(45)

\* A second witness of C3: a custom function replaced a default's.
C3_WitnessOverride ==
    /\ pc = "done"
    /\ custom = Some([min |-> "lambda x: x.max()"])
    /\ HasBands(1)
    /\ \E k \in 1..Len(BandsOf(1)) :
          BandsOf(1)[k][2]["min"] # Call("lambda x: x.min()", ZonePixels(1, BandsOf(1)[k][1]))

\* The default function of a metric name is the one in force.
IsDefault(name) == name \in DOMAIN DefaultMetrics /\ name \notin CustomNames

\* The values of the valid pixels of band b that feature i covers.
ValuesOf(i, b) == {raster.data[b][p[1]][p[2]] : p \in ValidCovered(i, b)}

\* C5: the default metrics of a feature are min, max, mean, std and sum of
\* exactly the valid pixels its geometry covers; on the 4 x 4 raster of 10s
\* with nodata at (0, 0) the polygon over cells (1,1)-(2,2) gives band 1
\* mean 10, sum 40, min 10, max 10, std 0.
C5_DefaultMetricsOverCoveredPixels ==
    \A i \in 1..Len(vector.features) :
        HasBands(i) =>
            \A k \in 1..Len(BandsOf(i)) :
                LET b == BandsOf(i)[k][1]
                    rec == BandsOf(i)[k][2]
                    V == ValidCovered(i, b)
                    n == Cardinality(V)
                    total == SumCells(V, raster.data[b])
                IN  /\ (V # {} /\ IsDefault("min")) => rec["min"] = Num(SetMin(ValuesOf(i, b)))
                    /\ (V # {} /\ IsDefault("max")) => rec["max"] = Num(SetMax(ValuesOf(i, b)))
                    /\ (V # {} /\ IsDefault("sum")) => rec["sum"] = Num(total)
                    /\ (V # {} /\ IsDefault("mean")) => rec["mean"] = Rat(total, n)
                    /\ (V # {} /\ IsDefault("std")) =>
                          rec["std"] = SqrtRat(n * SumSquares(V, raster.data[b]) - total * total,
                                               n * n)
                    /\ ( /\ raster.data = RasterA(raster.block_shape).data
                         /\ raster.affine = RasterA(raster.block_shape).affine
                         /\ ZoneOf(i) = Polygon(<<(<<1, -3, 3, -1>>)>>)
                         /\ all_touched # "True"
                         /\ b = 1
                         /\ custom = None )
                       => /\ rec["mean"] = Num(10)
                          /\ rec["sum"] = Num(40)
                          /\ rec["min"] = Num(10)
                          /\ rec["max"] = Num(10)
                          /\ rec["std"] = Num(0)

C5_Witness ==
    /\ pc = "done"
    /\ raster = RasterA(<<2, 2>>)
    /\ custom = None
    /\ all_touched = "None"
    /\ ZoneOf(1) = Polygon(<<(<<1, -3, 3, -1>>)>>)
    /\ HasBands(1)
    /\ \E k \in 1..Len(BandsOf(1)) :
          /\ BandsOf(1)[k][1] = 1
          /\ BandsOf(1)[k][2] = [mean |-> Num(10), sum |-> Num(40), min |-> Num(10),
                                 max |-> Num(10), std |-> Num(0)]

\* The bands argument names bands of the raster only.
ValidBands == \A k \in 1..Len(bands_arg.val) : bands_arg.val[k] \in 1..raster.count

\* The errors that come of the arguments or of the index, not of the
\* pixels a feature covers: an unknown crs, a band the raster does not
\* have or no band at all, an index query that finds no block.
SetupErrors ==
    {"CRSError", "IndexError: too many indices"}
        \cup (IF bands_arg.kind = "None" \/ (ValidBands /\ bands_arg.val # << >>)
              THEN {} ELSE {"ReadError", "IndexError: index 0 is out of bounds"})

\* C6: when a non-outside feature covers no valid pixel of a band, every
\* default metric of that band is the null of masked reductions (the
\* masked constant), and the function does not fail on that feature.
C6_NoValidPixelsGivesNull ==
    /\ \A i \in 1..Len(vector.features) :
          HasBands(i) =>
              \A k \in 1..Len(BandsOf(i)) :
                  ValidCovered(i, BandsOf(i)[k][1]) = {} =>
                      \A name \in DOMAIN DefaultMetrics :
                          IsDefault(name) =>
                              /\ name \in DOMAIN BandsOf(i)[k][2]
                              /\ BandsOf(i)[k][2][name] = Masked
    /\ ~( /\ pc = "error"
          /\ fidx >= 1
          /\ err \notin SetupErrors
          /\ \E b \in 1..raster.count : ValidCovered(fidx, b) = {} )

C6_Witness ==
    /\ pc = "done"
    /\ custom = None
    /\ raster.nodatavals[1] # {}
    /\ HasBands(1)
    /\ Covered(1, 0, 0)
    /\ \E k \in 1..Len(BandsOf(1)) :
          /\ BandsOf(1)[k][1] = 1
          /\ ValidCovered(1, 1) = {}
          /\ BandsOf(1)[k][2] = [mean |-> Masked, sum |-> Masked, min |-> Masked,
                                 max |-> Masked, std |-> Masked]

\* The geometry of feature i is exactly the pixel cell (r, c).
IsCell(i, r, c) == ZoneOf(i) = PixelPolygon(raster, r, r + 1, c, c + 1)

\* C7: a polygon that exactly covers one pixel cell (r, c) holding a valid
\* value yields, under the default rasterization, a sum equal to the raw
\* value of that pixel, for every cell, block layout and resolved window.
C7_SingleCellSumIsPixelValue ==
    \A i \in 1..Len(vector.features) :
        (HasBands(i) /\ all_touched # "True" /\ IsDefault("sum")) =>
            \A r \in 0..(raster.height - 1), c \in 0..(raster.width - 1) :
                IsCell(i, r, c) =>
                    \A k \in 1..Len(BandsOf(i)) :
                        LET b == BandsOf(i)[k][1]
                        IN  raster.data[b][r][c] \notin raster.nodatavals[b] =>
                                BandsOf(i)[k][2]["sum"] = Num(raster.data[b][r][c])

\* A cell off the diagonal, read through a window whose row offset differs
\* from its column offset.
C7_Witness ==
    /\ pc = "done"
    /\ Len(vector.features) = 1
    /\ all_touched = "None"
    /\ HasBands(1)
    /\ subset_window[1][1] # subset_window[2][1]
    /\ subset_window[1][1] > 0
    /\ \E r \in 0..(raster.height - 1), c \in 0..(raster.width - 1) :
          /\ r # c
          /\ IsCell(1, r, c)
          /\ \E k \in 1..Len(BandsOf(1)) :
                /\ BandsOf(1)[k][1] = 2
                /\ BandsOf(1)[k][2]["sum"] = Num(raster.data[2][r][c])

\* The bounding box of feature i reaches inside and outside the raster.
Straddles(i) ==
    /\ BoxesIntersect(GeomBounds(ZoneOf(i)), RasterBox)
    /\ ~BoxWithin(GeomBounds(ZoneOf(i)), RasterBox)

C9_SecondRunIdentical ==
    /\ [](run = 2 /\ pc = "done" => stats = first_stats)
    /\ [][inputs' = inputs]_vars

C9_Witness ==
    /\ run = 2
    /\ pc = "done"
    /\ stats = first_stats
    /\ custom # None
    /\ bands_arg.kind = "list"
    /\ bands_arg.val # Sorted(bands_arg.val)
    /\ HasBands(1)

\* The band indexes of the entry of feature i, in stored order.
StoredBands(i) == DictKeys(BandsOf(i))

\* C10 (as claimed): with a list of bands requested, the band records of
\* every non-outside feature are stored in the order of the caller's list.
C10_StoredInCallerOrder ==
    \A i \in 1..Len(vector.features) :
        (HasBands(i) /\ bands_arg.kind = "list") => StoredBands(i) = bands_arg.val

\* C10 (amended): with a list of bands requested, the band records of every
\* non-outside feature are stored in ascending band index order, whatever
\* the order of the caller's list, one record per requested band.
C10_StoredInAscendingOrder ==
    \A i \in 1..Len(vector.features) :
        (HasBands(i) /\ bands_arg.kind = "list") =>
            /\ \A k \in 1..(Len(StoredBands(i)) - 1) : StoredBands(i)[k] < StoredBands(i)[k + 1]
            /\ {StoredBands(i)[k] : k \in 1..Len(StoredBands(i))}
                  = {bands_arg.val[k] : k \in 1..Len(bands_arg.val)}

C10_Witness ==
    /\ pc = "done"
    /\ bands_arg = [kind |-> "list", val |-> <<3, 1>>]
    /\ HasBands(1)
    /\ StoredBands(1) = <<1, 3>>

\* C11 (as claimed): a bands argument that names a band the raster does not
\* have ends the function with an error before any feature is taken: no
\* feature is reprojected, no result entry is made and no mapping is
\* returned.
C11_BadBandFailsBeforeFeatures ==
    ~ValidBands =>
        /\ fidx = 0
        /\ stats = << >>
        /\ pc # "done"
        /\ \A k \in 1..Len(calls) : calls[k] # "transform_geom"

\* C12: at every moment every entry of the result that is not outside
\* holds the contained key if and only if the contained argument is true,
\* and with contained false no entry holds it.
C12_ContainedKeyIffRequested ==
    \A k \in 1..Len(stats) :
        LET entry == stats[k][2]
        IN  /\ ~contained => "contained" \notin DOMAIN entry
            /\ ~entry.outside => ("contained" \in DOMAIN entry <=> contained)

C12_Witness ==
    /\ pc = "done"
    /\ contained
    /\ Len(stats) = 2
    /\ \E k \in 1..2 : stats[k][2].outside
    /\ \E k \in 1..2 : ~stats[k][2].outside /\ "contained" \in DOMAIN stats[k][2]

\* A second witness of C12: contained not asked for, a feature not outside.
C12_WitnessNotRequested ==
    /\ pc = "done"
    /\ ~contained
    /\ \E k \in 1..Len(stats) :
          ~stats[k][2].outside /\ DOMAIN stats[k][2] = {"outside", "bands"}

\* The bounding box of feature i lies within the raster's bounding box.
BBoxWithin(i) == BoxWithin(GeomBounds(ZoneOf(i)), RasterBox)

\* Feature i lies wholly on the edge of the raster's bounding box.
OnRasterEdge(i) ==
    \A k \in 1..Len(ZoneOf(i).parts) : OnBoundary(ZoneOf(i).parts[k], RasterBox)

\* C13 (as claimed): with contained asked for, the contained value of every
\* feature that is not outside is the bounding-box test: the geometry's
\* bounding box lies within the raster's bounding box.
C13_ContainedIsBBoxTest ==
    \A i \in 1..Len(vector.features) :
        (HasBands(i) /\ contained) => Entry(i).contained = BBoxWithin(i)

\* C13 (amended): with contained asked for, the contained value of every
\* feature that is not outside is the bounding-box test for every geometry
\* that has a point off the edge of the raster's bounding box (polygons,
\* L-shaped or touching the edge, included), and false for a geometry that
\* lies wholly on that edge.
C13_ContainedIsBBoxTestOffEdge ==
    \A i \in 1..Len(vector.features) :
        (HasBands(i) /\ contained) =>
            Entry(i).contained = (BBoxWithin(i) /\ ~OnRasterEdge(i))

\* An L-shaped polygon along two edges of the raster is contained.
C13_Witness ==
    /\ pc = "done"
    /\ contained
    /\ HasBands(1)
    /\ Len(ZoneOf(1).parts) = 2
    /\ BBoxWithin(1)
    /\ ZoneOf(1).parts[1][1] = RasterBox[1]
    /\ Entry(1).contained = TRUE

\* A point on the edge of the raster is not.
C13_WitnessOnEdge ==
    /\ pc = "done"
    /\ contained
    /\ HasBands(1)
    /\ OnRasterEdge(1)
    /\ BBoxWithin(1)
    /\ Entry(1).contained = FALSE

\* C14: features are taken one at a time in the order of the vector: the
\* keys of the result are at every moment the ids of the first features in
\* input order, every feature before the one at hand has its entry when a
\* step of the one at hand is taken, and no step changes the entry of a
\* feature before the one at hand.
C14_OneFeatureAtATimeInOrder ==
    /\ []( /\ Len(stats) <= fidx
           /\ \A k \in 1..Len(stats) : stats[k][1] = vector.features[k].id
           /\ fidx >= 1 => Len(stats) >= fidx - 1
           /\ pc \in {"outside", "window", "read", "rasterize"} => Len(stats) = fidx - 1
           /\ pc \in {"loop", "done"} => Len(stats) = fidx )
    /\ [][run' = run =>
            \A k \in 1..(fidx - 1) : Len(stats') >= k /\ stats'[k] = stats[k]]_vars

C14_Witness ==
    /\ pc = "reduce"
    /\ fidx = 2
    /\ DictKeys(stats) = <<"0">>
    /\ ~stats[1][2].outside
    /\ Len(stats[1][2].bands) = raster.count

\* A second witness of C14: the mapping returned for two features that
\* both intersect the raster.
C14_WitnessDone ==
    /\ pc = "done"
    /\ DictKeys(stats) = <<"0", "1">>
    /\ ~stats[1][2].outside
    /\ ~stats[2][2].outside

\* The band indexes the function was asked for.
RequestedBands ==
    IF bands_arg.kind = "None" THEN 1..raster.count
    ELSE {bands_arg.val[k] : k \in 1..Len(bands_arg.val)}

\* C15: a step that fails ends the function with its error: the function
\* does not go on after it and returns no mapping; a mapping that is
\* returned holds, for every feature that is not outside, a record of every
\* requested band.
C15_ErrorsPropagate ==
    /\ [](pc = "done" =>
            /\ err = ""
            /\ \A k \in 1..Len(stats) :
                  ~stats[k][2].outside =>
                      {stats[k][2].bands[j][1] : j \in 1..Len(stats[k][2].bands)}
                          = RequestedBands)
    /\ [](err # "" <=> pc = "error")
    /\ [][pc = "error" => pc' = "error" /\ err' = err]_vars

\* A metric function raised on the third band of a feature whose first
\* bands are already in stats.
C15_Witness ==
    /\ pc = "error"
    /\ err = "ZeroDivisionError"
    /\ fidx >= 1
    /\ DictHas(stats, Feature.id)
    /\ Len(bands) = 3
    /\ Len(DictGet(stats, Feature.id).bands) = 2

\* More witnesses of C15: a failed reprojection, a failed read.
C15_WitnessReprojection ==
    pc = "error" /\ err = "CRSError" /\ fidx = 1 /\ stats = << >>

C15_WitnessRead ==
    pc = "error" /\ err = "ReadError" /\ fidx = 2 /\ Len(stats) = 1

\* The index query for feature i finds no block although the feature
\* intersects the raster's bounds.
ZeroBlocks(i) ==
    /\ GeomIntersects(ZoneOf(i), RasterBoundsPolygon(RasterBounds(raster)))
    /\ IntersectingWindows(window_ids, window_index, GeomBounds(ZoneOf(i))) = << >>

\* C16 (as claimed): a feature that intersects the raster and for which the
\* index query finds no block gets the entry {outside: true} and the
\* function goes on: the function does not fail on it.
C16_EmptyQueryMeansOutside ==
    (fidx >= 1 /\ pc \notin {"outside", "window"} /\ ZeroBlocks(fidx)) =>
        /\ pc # "error"
        /\ DictHas(stats, Feature.id)
        /\ DictGet(stats, Feature.id) = [outside |-> TRUE]

\* The function has ended without an error: it returned stats or None.
Ended == pc \in {"done", "return None"}

\* C17 (as claimed): when the function ends without an error it returns a
\* mapping that holds, in input order, one entry for every feature of the
\* vector; every entry holds outside, and an entry that is not outside
\* holds bands, whose keys are the requested band indexes.
C17_OneEntryPerFeature ==
    Ended =>
        /\ pc = "done"
        /\ DictKeys(stats) = [k \in 1..Len(vector.features) |-> vector.features[k].id]
        /\ \A k \in 1..Len(stats) :
              LET entry == stats[k][2]
              IN  /\ "outside" \in DOMAIN entry
                  /\ ~entry.outside =>
                        /\ "bands" \in DOMAIN entry
                        /\ {entry.bands[j][1] : j \in 1..Len(entry.bands)} = RequestedBands

\* The positions in calls of the reprojections: one per feature taken.
Reprojections == {k \in 1..Len(calls) : calls[k] = "transform_geom"}

\* The calls made for feature i: from its reprojection up to the next.
FeatureCalls(i) ==
    LET from == CHOOSE k \in Reprojections :
                    Cardinality({j \in Reprojections : j <= k}) = i
        later == {k \in Reprojections : k > from}
        to == IF later = {} THEN Len(calls) ELSE SetMin(later) - 1
    IN  SubSeq(calls, from, to)

\* The state of feature i in the words of the specification; a feature the
\* function failed on stays in the state it had reached.
FeatureState(i) ==
    IF i > fidx THEN "START"
    ELSE IF DictHas(stats, vector.features[i].id) /\ Entry(i).outside THEN "OUTSIDE"
    ELSE IF i < fidx \/ pc \in {"loop", "done"} THEN "REDUCED"
    ELSE IF pc \in {"outside", "window"} THEN "REPROJECTED"
    ELSE IF pc \in {"read", "rasterize"} THEN "WINDOWED"
    ELSE IF pc \in {"reduce", "return None"} THEN "MASKED"
    ELSE IF Len(FeatureCalls(i)) <= 2 THEN "REPROJECTED"
    ELSE IF Len(FeatureCalls(i)) = 3 THEN "WINDOWED"
    ELSE "MASKED"

\* The steps the specification allows a feature.
FeatureSteps ==
    {<<"START", "REPROJECTED">>, <<"REPROJECTED", "OUTSIDE">>,
     <<"REPROJECTED", "WINDOWED">>, <<"WINDOWED", "MASKED">>,
     <<"MASKED", "REDUCED">>}

\* C20: every feature goes START, REPROJECTED and then OUTSIDE or WINDOWED,
\* MASKED, REDUCED, never back and never past OUTSIDE or REDUCED; in the
\* calls made for a feature the reprojection is first, the index query
\* comes before the read, the read before rasterize and rasterize before
\* every call of the metrics; the outside test is made on the reprojected
\* geometry; for a feature that is outside nothing but the reprojection
\* is ever called.
C20_FeatureStateOrder ==
    /\ [][run' = run =>
            \A i \in 1..Len(vector.features) :
                \/ FeatureState(i)' = FeatureState(i)
                \/ <<FeatureState(i), FeatureState(i)'>> \in FeatureSteps]_vars
    /\ [](\A k \in 1..Len(calls) :
             /\ calls[k] = "window_index.intersection" => calls[k - 1] = "transform_geom"
             /\ calls[k] = "raster.read" => calls[k - 1] = "window_index.intersection"
             /\ calls[k] = "rasterize" => calls[k - 1] = "raster.read"
             /\ calls[k] = "metrics" => calls[k - 1] \in {"rasterize", "metrics"})
    /\ [](pc = "outside" =>
             /\ calls[Len(calls)] = "transform_geom"
             /\ zone_geometry = ZoneOf(fidx))
    /\ [](\A i \in 1..fidx :
             FeatureState(i) = "OUTSIDE" => FeatureCalls(i) = <<"transform_geom">>)
    /\ [](\A i \in 1..fidx :
             (FeatureState(i) = "REDUCED" /\ pc # "error") =>
                 FeatureCalls(i) =
                     <<"transform_geom", "window_index.intersection", "raster.read",
                       "rasterize">> \o [b \in 1..Len(bands) |-> "metrics"])

\* An outside feature and a reduced one, in either order.
C20_Witness ==
    /\ pc = "done"
    /\ Len(vector.features) = 2
    /\ FeatureState(1) = "REDUCED"
    /\ FeatureState(2) = "OUTSIDE"
    /\ Len(FeatureCalls(1)) = 4 + raster.count
    /\ FeatureCalls(2) = <<"transform_geom">>

C20_WitnessOutsideFirst ==
    /\ pc = "reduce"
    /\ fidx = 2
    /\ FeatureState(1) = "OUTSIDE"
    /\ FeatureState(2) = "MASKED"

\* Every row of the input converts and writes.
NoFailures == \A k \in 1..Len(reader) : reader[k] = "ok"

\* The ids lo, lo + 1, ... of n rows.
RowIds(lo, n) == [k \in 1..n |-> lo + k - 1]

\* C19 (as claimed): with skip-lines N and subsample M > 0 every feature
\* written is that of a row at one of the positions N .. N+M-1, the loop
\* never takes a feature past position N+M-1, and without failures the
\* features written are those of all these positions the input has.
C19_WritesRowsSkipToSubsample ==
    subsample > 0 =>
        /\ \A k \in 1..Len(output) :
              skip_lines <= output[k] /\ output[k] <= skip_lines + subsample - 1
        /\ pc = "body" => feature.id <= skip_lines + subsample - 1
        /\ (pc = "exit" /\ NoFailures) =>
              output = RowIds(skip_lines,
                              IF Len(reader) >= skip_lines + subsample THEN subsample
                              ELSE IF Len(reader) > skip_lines THEN Len(reader) - skip_lines
                              ELSE 0)

\* A failed write at the last position of the subsample, dropped with
\* skip_failures, and the rows after the subsample written.
C19_PastSubsampleAfterFailedWrite ==
    /\ reader = <<"bad write", "ok", "ok", "ok">>
    /\ skip_failures /\ skip_lines = 0 /\ subsample = 1
    /\ pc = "exit" /\ output = <<2, 3>>

\* Feature i of the layer covers pixel (r, c) of the output raster.
Covers(i, r, c) ==
    PixelBurned(src.features[i].geometry, dst.affine, all_touched = "True", r, c)

\* The sum of the add values of the features 1..i that cover pixel (r, c).
RECURSIVE CoverSum(_, _, _)
CoverSum(i, r, c) ==
    IF i = 0 THEN 0
    ELSE CoverSum(i - 1, r, c)
         + (IF Covers(i, r, c) THEN AddVal(property_name, src.features[i]) ELSE 0)

\* What the docstring promises for pixel (r, c).
ExpectedPixel(r, c) ==
    IF \E i \in 1..Len(src.features) : Covers(i, r, c)
    THEN CoverSum(Len(src.features), r, c)
    ELSE nodata

\* C18 (as claimed): once the features of a block are done, every pixel
\* of the block holds the sum of the add values of the features covering
\* it, and nodata where none covers it.
C18_BlockHoldsSums ==
    pc \in {"block", "exit"} =>
        \A k \in 1..block_pos :
            LET w == BlockWindow(k)
            IN  Filter(src.features, WindowBBox(dst.affine, w)) # << >> =>
                    \A r \in w[1][1]..(w[1][2] - 1), c \in w[2][1]..(w[2][2] - 1) :
                        dst.data[r][c] = Some(ExpectedPixel(r, c))

\* The polygons A = 1 and B = 2 of the docstring summed into one block of
\* 2 x 4 pixels: every pixel holds 3.
C18_DocstringExampleAllThree ==
    /\ pc = "exit" /\ property_name # None /\ nodata = 0 /\ all_touched = "False"
    /\ Len(src.features) = 2
    /\ src.features[1].value = Some(1) /\ src.features[2].value = Some(2)
    /\ src.features[1].geometry.type = "Polygon"
    /\ src.features[2].geometry.type = "Polygon"
    /\ dst.width = 4 /\ dst.height = 2 /\ dst.block_shape = <<2, 4>>
    /\ \A r \in 0..1, c \in 0..3 : dst.data[r][c] = Some(3)

\* A point of value 2 and then polygon A = 1 with nodata -1 on 2 x 2
\* pixels: the zeros left by the point became -1 before A was added, so
\* a pixel covered by A alone holds -1 + 1 = 0, written as nodata.
C18_SumOntoNodata ==
    /\ pc = "exit" /\ property_name # None /\ nodata = -1
    /\ src.features = <<[geometry |-> Point(3, 3), value |-> Some(2)],
                        [geometry |-> Polygon(<<(<<0, 0, 4, 4>>)>>), value |-> Some(1)]>>
    /\ dst.width = 2 /\ dst.height = 2
    /\ ExpectedPixel(1, 0) = 1
    /\ dst.data[1][0] = Some(-1)

\* C21 (as claimed): a feature is marked outside exactly when the bounding
\* box of its reprojected geometry does not meet the raster's bounding
\* box, and every other feature has a bands record.
C21_OutsideIffBBoxDisjoint ==
    \A i \in 1..Len(vector.features) :
        Finished(i) =>
            /\ Entry(i).outside = BBoxOutside(i)
            /\ ~BBoxOutside(i) => "bands" \in DOMAIN Entry(i)

\* The L-shaped polygon around the raster, its bounding box over the
\* raster, stored as outside and without a bands record.
C21_AroundMarkedOutside ==
    /\ pc = "done"
    /\ ZoneOf(1) = AroundPolygon(raster)
    /\ ~BBoxOutside(1)
    /\ Entry(1).outside
    /\ "bands" \notin DOMAIN Entry(1)

\* The world bounding box of the four pixel corners of a block.
CornersBox(b, aff) ==
    LET r == b[2][1]
        c == b[2][2]
        P == {AffineMul(aff, <<x, y>>) : x \in {c[1], c[2]}, y \in {r[1], r[2]}}
    IN  <<SetMin({p[1] : p \in P}), SetMin({p[2] : p \in P}),
          SetMax({p[1] : p \in P}), SetMax({p[2] : p \in P})>>

\* The blocks of the raster whose world bounding box meets the bounding
\* box of feature i.
MeetingBlocks(i) ==
    LET blocks == BlockWindows(raster, window_band)
    IN  {blocks[k] : k \in {j \in 1..Len(blocks) :
            BoxesIntersect(CornersBox(blocks[j], raster.affine), GeomBounds(ZoneOf(i)))}}

\* ((smallest row start, largest row stop), (smallest column start,
\* largest column stop)) over a set of blocks.
UnionWindow(B) ==
    <<<<SetMin({b[2][1][1] : b \in B}), SetMax({b[2][1][2] : b \in B})>>,
      <<SetMin({b[2][2][1] : b \in B}), SetMax({b[2][2][2] : b \in B})>>>>

\* C22 (as claimed): the window the raster is read through is the union
\* window, rows first, of the blocks whose world bounding box meets the
\* bounding box of the geometry.
C22_WindowIsUnionOfMeetingBlocks ==
    pc \in {"read", "rasterize", "reduce"} =>
        /\ MeetingBlocks(fidx) # {}
        /\ subset_window = UnionWindow(MeetingBlocks(fidx))

\* The same for a raster without rotation whose pixels run right and down.
C22_NorthUpWindowIsUnion ==
    (raster.affine[2] = 0 /\ raster.affine[4] = 0 /\ raster.affine[1] > 0
        /\ raster.affine[5] < 0) => C22_WindowIsUnionOfMeetingBlocks

\* A window of more than one block with different row and column ranges.
C22_NorthUpWitness ==
    /\ pc = "read" /\ raster.affine[2] = 0
    /\ Cardinality(MeetingBlocks(fidx)) >= 2
    /\ subset_window[1] # subset_window[2]
    /\ subset_window = UnionWindow(MeetingBlocks(fidx))

\* The sheared raster read through its first block alone, its second
\* block meeting the polygon too.
C22_ShearedWindowLacksBlock ==
    /\ pc = "read" /\ raster = RasterS
    /\ Cardinality(MeetingBlocks(fidx)) = 2
    /\ subset_window = <<<<0, 1>>, <<0, 4>>>>

\* The array the band loop is about to reduce for band bands[bpos].
ReducedArray ==
    MaskedSubset(raster_subset[BandMap(bands, bands[bpos]) + 1], rasterized)

\* C23: the array reduced for a band is that band's data over the resolved
\* window, and a pixel of it is masked exactly when it is nodata in that
\* band or the geometry does not cover it.
C23_ReducedArrayIsBandUnderZone ==
    (pc = "reduce" /\ bpos <= Len(bands)) =>
        LET b == bands[bpos]
            r0 == subset_window[1][1]
            c0 == subset_window[2][1]
        IN  /\ Shape(ReducedArray.data) = <<subset_window[1][2] - r0,
                                            subset_window[2][2] - c0>>
            /\ \A p \in Cells(ReducedArray.data) :
                  /\ ReducedArray.data[p[1]][p[2]] = raster.data[b][r0 + p[1]][c0 + p[2]]
                  /\ ReducedArray.mask[p[1]][p[2]] =
                        (\/ raster.data[b][r0 + p[1]][c0 + p[2]] \in raster.nodatavals[b]
                         \/ ~Covered(fidx, r0 + p[1], c0 + p[2]))

\* The second of two bands, with a covered nodata pixel, a covered valid
\* pixel and a valid pixel the geometry does not cover.
C23_Witness ==
    /\ pc = "reduce" /\ bpos = 2 /\ bands[bpos] = 3
    /\ \E p, q, s \in Cells(ReducedArray.data) :
          /\ Covered(fidx, subset_window[1][1] + p[1], subset_window[2][1] + p[2])
          /\ raster_subset[2].mask[p[1]][p[2]]
          /\ ReducedArray.mask[p[1]][p[2]]
          /\ ~ReducedArray.mask[q[1]][q[2]]
          /\ ~raster_subset[2].mask[s[1]][s[2]]
          /\ ReducedArray.mask[s[1]][s[2]]

\* The geometry of the feature at hand has been rasterized.
Rasterized == pc \in {"reduce", "return None"}

\* C24 (as claimed): the affine the geometry is rasterized with has the
\* raster affine's a, b, d and e and maps every local pixel (col, row) of
\* the window where the raster's affine maps (c0 + col, r0 + row).
C24_SubsetAffineReanchored ==
    Rasterized =>
        LET r0 == subset_window[1][1]
            c0 == subset_window[2][1]
        IN  /\ subset_affine[1] = raster.affine[1] /\ subset_affine[2] = raster.affine[2]
            /\ subset_affine[4] = raster.affine[4] /\ subset_affine[5] = raster.affine[5]
            /\ \A row \in 0..(subset_window[1][2] - r0), col \in 0..(subset_window[2][2] - c0) :
                  AffineMul(subset_affine, <<col, row>>)
                      = AffineMul(raster.affine, <<c0 + col, r0 + row>>)

\* A window whose row offset differs from its column offset.
C24_WitnessOffsetsDiffer ==
    /\ pc = "reduce"
    /\ subset_window[1][1] # subset_window[2][1]
    /\ subset_window[1][1] > 0
    /\ C24_SubsetAffineReanchored

\* The geometry rasterized with the identity affine over a raster of
\* 2 x 2 pixels with its corner at (10, 20).
C24_RasterizedWithIdentity ==
    /\ pc = "return None"
    /\ raster.affine = <<2, 0, 10, 0, -2, 20>>
    /\ subset_affine = IdentityAffine

\* The index loop has ended, by its last block or by an error of rtree.
IndexLoopOver ==
    \/ pc \in {"loop", "outside", "window", "read", "rasterize", "reduce", "done",
                "return None"}
    \/ pc = "error" /\ err \notin {"ValueError", "TypeError"}

\* C25 (as claimed): after the index loop the index holds, for every block
\* of the raster in the order of block_windows and under its position,
\* the world bounding box of the block's four corners, minimum first.
C25_IndexHoldsBlockBoxes ==
    IndexLoopOver =>
        LET blocks == BlockWindows(raster, window_band)
        IN  /\ Len(window_index) = Len(blocks)
            /\ window_ids = blocks
            /\ \A k \in 1..Len(blocks) :
                  /\ window_index[k] = CornersBox(blocks[k], raster.affine)
                  /\ window_index[k][1] <= window_index[k][3]
                  /\ window_index[k][2] <= window_index[k][4]

\* The same for a raster without rotation whose pixels run right and down.
C25_NorthUpIndexHoldsBlockBoxes ==
    (raster.affine[2] = 0 /\ raster.affine[4] = 0 /\ raster.affine[1] > 0
        /\ raster.affine[5] < 0) => C25_IndexHoldsBlockBoxes

\* The south-up raster: rtree refuses the box of the first block.
C25_SouthUpRefused ==
    /\ raster = RasterU
    /\ pc = "error" /\ err = "RTreeError"
    /\ window_index = << >>

\* C26 (as claimed): within one call an entry of stats, once assigned, is
\* never assigned again and never changes.
C26_EntryWrittenOnce ==
    [][pc' # "merge" =>
          \A k \in 1..Len(stats) : k <= Len(stats') /\ stats'[k] = stats[k]]_vars

\* The entry of a feature assigned for its first band and assigned again,
\* with a larger bands mapping, for its second.
C26_EntryRewrittenPerBand ==
    /\ pc = "reduce" /\ bpos = 3 /\ Len(bands) = 3
    /\ DictHas(stats, Feature.id)
    /\ Len(DictGet(stats, Feature.id).bands) = 2

\* The geometry type of the layer is a point or a line type: by its
\* schema where the function reads it, else by its features.
PointOrLineLayer ==
    LET types == IF "schema" \in DOMAIN vector THEN {vector.schema.geometry}
                 ELSE {vector.features[i].geometry.type : i \in 1..Len(vector.features)}
    IN  types \subseteq {"Point", "MultiPoint", "LineString", "MultiLineString"}

\* C27 (as claimed): an all_touched the caller left at None has become
\* true by the time a geometry of a point or line layer is rasterized,
\* and becomes nothing else for any other layer.
C27_UnspecifiedDefaultsByType ==
    /\ [](Rasterized /\ all_touched = "None" => ~PointOrLineLayer)
    /\ [][(all_touched = "None" /\ all_touched' # "None") =>
              (PointOrLineLayer /\ all_touched' = "True")]_vars

\* A point of a layer of points rasterized with all_touched still None.
C27_PointRasterizedWithNone ==
    /\ pc = "reduce"
    /\ all_touched = "None"
    /\ PointOrLineLayer
    /\ zone_geometry.type = "Point"

\* C28 (as claimed): an all_touched the caller gave as True or False is
\* never changed, so it is the value every geometry is rasterized with.
C28_ExplicitAllTouchedKept ==
    [][(all_touched # "None") => (all_touched' = all_touched)]_vars

\* A line of a layer of lines rasterized with all_touched true (what the
\* function makes of True, False and None alike for such a layer).
C28_LineRasterizedTouched ==
    /\ pc = "return None"
    /\ vector.schema.geometry = "LineString"
    /\ zone_geometry.type = "LineString"
    /\ all_touched = "True"
    /\ calls[Len(calls)] = "rasterize"

\* The raster has no rotation and its pixels run right and down.
NorthUp ==
    /\ raster.affine[2] = 0 /\ raster.affine[4] = 0
    /\ raster.affine[1] > 0 /\ raster.affine[5] < 0

\* C29: on a north-up raster the index returns at least one block for
\* the bounding box of every feature that is not outside, and the window
\* computation never fails on an empty list.
C29_NorthUpQueryNeverEmpty ==
    NorthUp =>
        /\ pc = "window" =>
              IndexIntersection(window_index, GeomBounds(zone_geometry)) # << >>
        /\ ~(pc = "error" /\ err = "IndexError: too many indices")

\* A geometry that only touches the top edge of the raster is not
\* outside, and the index returns the blocks along that edge.
C29_Witness ==
    /\ NorthUp
    /\ pc = "window"
    /\ zone_geometry = TouchingPolygon(raster)
    /\ Len(IndexIntersection(window_index, GeomBounds(zone_geometry))) >= 1

\* C30 (as claimed): with skip-lines 0, subsample 0 and no failures the
\* features written are at every moment the features of the first rows,
\* in order and once each, and at the end those of all the rows.
C30_WritesEveryFeatureOnce ==
    (skip_lines = 0 /\ subsample = 0 /\ NoFailures) =>
        /\ output = RowIds(0, Len(output))
        /\ pc = "exit" => Len(output) = Len(reader)

\* Three good rows: the feature of the second row is never written.
C30_SecondFeatureDropped ==
    /\ pc = "exit" /\ skip_lines = 0 /\ subsample = 0
    /\ reader = <<"ok", "ok", "ok">>
    /\ output = <<0, 2>>

\* One good row: nothing is written.
C30_OneRowWritesNothing ==
    /\ pc = "exit" /\ skip_lines = 0 /\ subsample = 0
    /\ reader = <<"ok">>
    /\ output = << >>

====
